---- MODULE Spec2Model ----
(***************************************************************************)
(* Quacker-TTS: the hierarchical chunker (internal/tts chunking files),    *)
(* the resilient synthesis pipeline (processor.go) and the concurrency     *)
(* controller (GenerateSpeechChunks / generateSpeechChunks).               *)
(*                                                                         *)
(* A Go string is a sequence of runes, each rune a one-character string.   *)
(* The rune "E" stands for a rune of two UTF-8 bytes (such as U+00E9);     *)
(* every other rune of the alphabet is ASCII.                              *)
(***************************************************************************)
EXTENDS Integers, Sequences, FiniteSets, TLC

VARIABLES
    \* ---- chunker harness (pure functions applied to drawn inputs)
    text,          \* the input text handed to the chunker
    budget,        \* maxBytes / maxTokens
    fn,            \* which entry point has been applied ("none" before)
    encOk,         \* whether tiktoken.GetEncoding succeeded in that call
    units,         \* the []string it returned
    panicked,      \* whether the call panicked instead of returning
    \* ---- splitByRune loop of the token chunker, one iteration per step
    runeText,      \* the word handed to splitByRune
    runeMax,       \* its maxRunes argument
    runeI,         \* loop variable i
    runeChunks,    \* chunks appended so far
    runePc,        \* "off" | "loop" | "done"
    \* ---- ProcessTextToSpeech (processor.go)
    pc,            \* "off" | "start" | "loop" | "done"
    job,           \* provider kind and limits, cfg, tokenizer availability
    request,       \* the caller's *UnifiedRequest
    chunks,        \* the units of request.Text
    totalChunks,   \* len(chunks)
    idx,           \* position of the range loop over chunks (1-based)
    stack,         \* frames of processChunkRecursivelyWithDepth, innermost last;
                   \* a frame keeps the requests it has sent to the provider
    audioData,     \* the audio appended so far, one blob per element
    completed,     \* the counter of the progress closure
    progressLog,   \* the calls of progressCb: <<completed, total>>
    errorLog,      \* the calls of errorCb
    failures,      \* how many provider calls have returned an error
    unitReturns,   \* what processChunkRecursively returned for each unit
    ctxErr,        \* ctx.Err(): Nil until the context is done
    result,        \* what ProcessTextToSpeech returned
    \* ---- GenerateSpeechChunks (chunk.go) / generateSpeechChunks (Google)
    ctl,           \* which of the two controllers runs
    parts,         \* the texts the controller's chunker returned
    creq,          \* the request the controller was called with
    subReqs,       \* per index: the request the worker passed on, Nil until sent
    cpc,           \* "off" | "dispatch" | "done"
    spawned,       \* goroutines started by the range loop so far
    worker,        \* per index: "none" | "tick" | "call" | "done"
    ticker,        \* ticks buffered in ticker.C (capacity 1)
    stopped,       \* whether ticker.Stop() has run
    results,       \* results[i], Nil until written
    errs,          \* errs[i], Nil until written or when the call succeeded
    wg,            \* the WaitGroup counter
    finished,      \* the indices in the order their workers finished
    combined,      \* what the controller returned
    \* ---- Manager (manager.go) and handleSubmit's checks (main.go)
    config,        \* m.config: OpenAIAPIKey, GoogleProjectID, DefaultProvider
    providers,     \* m.providers: provider name -> its credential field
    defaultProvider, \* m.defaultProvider
    accessToken,   \* whether GoogleProvider holds a cached, unexpired token
    mpc,           \* "off" | "idle" | "goroutine" (handleSubmit's goroutine pending)
    mcall          \* the last call through the manager and what it did

chunkVars == <<text, budget, fn, encOk, units, panicked>>
runeVars  == <<runeText, runeMax, runeI, runeChunks, runePc>>
pipeVars  == <<pc, job, request, chunks, totalChunks, idx, stack, audioData,
               completed, progressLog, errorLog, failures, unitReturns, ctxErr, result>>
concVars  == <<ctl, parts, creq, subReqs, cpc, spawned, worker, ticker, stopped, results, errs, wg,
               finished, combined>>
mgrVars   == <<config, providers, defaultProvider, accessToken, mpc, mcall>>
vars      == <<chunkVars, runeVars, pipeVars, concVars, mgrVars>>

nonChunkVars == <<runeVars, pipeVars, concVars, mgrVars>>
nonRuneVars  == <<chunkVars, pipeVars, concVars, mgrVars>>
nonPipeVars  == <<chunkVars, runeVars, concVars, mgrVars>>
nonConcVars  == <<chunkVars, runeVars, pipeVars, mgrVars>>
nonMgrVars   == <<chunkVars, runeVars, pipeVars, concVars>>

----------------------------------------------------------------------------
(* Bounds of the model *)

MaxPieces == 4      \* pieces per drawn chunker input
MaxBudget == 4      \* largest drawn chunker budget
MaxWordLen == 4     \* longest word drawn for the splitByRune loop
MaxRuneIters == 6   \* cap on recorded iterations of a non-advancing loop
MaxFailures == 7    \* provider calls that fail in one job
MaxParts == 3       \* units handed to the concurrency controller

----------------------------------------------------------------------------
(* Strings *)

Min(S) == CHOOSE x \in S : \A y \in S : x <= y
Max(S) == CHOOSE x \in S : \A y \in S : x >= y

\* unicode.IsSpace, over the alphabet
IsSpace(c) == c \in {" ", "\n", "\t", "\r"}

\* \s of the regexp package
IsRegexSpace(c) == c \in {" ", "\n", "\t", "\r", "\f"}

IsSentenceEnd(c) == c \in {".", "!", "?"}

\* number of UTF-8 bytes of a rune
RuneBytes(c) == IF c = "E" THEN 2 ELSE 1

RECURSIVE ByteLen(_)
\* len([]byte(s))
ByteLen(s) == IF s = <<>> THEN 0 ELSE RuneBytes(Head(s)) + ByteLen(Tail(s))

\* len(enc.Encode(s, nil, nil)): the tokenizer is the tiktoken library; the
\* model takes the encoding in which no two runes merge (one token per rune)
TokenCount(s) == Len(s)

\* strings.TrimSpace
TrimSpace(s) ==
    LET keep == {i \in 1..Len(s) : ~IsSpace(s[i])}
    IN  IF keep = {} THEN <<>> ELSE SubSeq(s, Min(keep), Max(keep))

RECURSIVE FieldsFrom(_, _, _)
FieldsFrom(s, i, cur) ==
    IF i > Len(s) THEN (IF cur = <<>> THEN <<>> ELSE <<cur>>)
    ELSE IF IsSpace(s[i])
         THEN (IF cur = <<>> THEN <<>> ELSE <<cur>>) \o FieldsFrom(s, i + 1, <<>>)
         ELSE FieldsFrom(s, i + 1, Append(cur, s[i]))

\* strings.Fields
Fields(s) == FieldsFrom(s, 1, <<>>)

RECURSIVE Flatten(_)
Flatten(ss) == IF ss = <<>> THEN <<>> ELSE Head(ss) \o Flatten(Tail(ss))

RECURSIVE JoinSpace(_)
\* strings.Join(ss, " ")
JoinSpace(ss) ==
    IF ss = <<>> THEN <<>>
    ELSE IF Len(ss) = 1 THEN ss[1]
    ELSE ss[1] \o <<" ">> \o JoinSpace(Tail(ss))

----------------------------------------------------------------------------
(* Regular expressions.  A match is <<start, end>>, Go's half-open byte    *)
(* offsets counted in runes: the match is s[start+1 .. end].               *)

\* the last "\n" of the maximal run of \s that starts at position from
\* (1-based), or 0 when that run holds no "\n"
LastNewlineInRun(s, from) ==
    LET stop == Min({j \in from..Len(s) : ~IsRegexSpace(s[j])} \cup {Len(s) + 1})
        nl   == {j \in from..(stop - 1) : s[j] = "\n"}
    IN  IF nl = {} THEN 0 ELSE Max(nl)

\* end of the run of rune c that starts at position from (exclusive)
RunEnd(s, from, c) == Min({j \in from..Len(s) : s[j] # c} \cup {Len(s) + 1})

\* the end offset of the match of the pattern that starts at offset p, or -1
MatchAt(re, s, p) ==
    IF p + 1 > Len(s) THEN -1
    ELSE CASE re = "sentenceEnd" ->
                IF IsSentenceEnd(s[p + 1]) THEN p + 1 ELSE -1
           [] re = "sentenceEndNewline" ->
                IF IsSentenceEnd(s[p + 1]) /\ LastNewlineInRun(s, p + 2) # 0
                THEN LastNewlineInRun(s, p + 2) ELSE -1
           [] re = "multiNewline" ->
                IF s[p + 1] = "\n" /\ LastNewlineInRun(s, p + 2) # 0
                THEN LastNewlineInRun(s, p + 2) ELSE -1
           [] re = "hr" ->
                IF s[p + 1] = "\n" /\ p + 2 <= Len(s) /\ s[p + 2] \in {"-", "_"}
                THEN LET e == RunEnd(s, p + 2, s[p + 2])
                     IN  IF e - (p + 2) >= 3 /\ e <= Len(s) /\ s[e] = "\n"
                         THEN e ELSE -1
                ELSE -1

RECURSIVE FindAllFrom(_, _, _)
FindAllFrom(re, s, p) ==
    IF p >= Len(s) THEN <<>>
    ELSE IF MatchAt(re, s, p) # -1
         THEN <<<<p, MatchAt(re, s, p)>>>> \o FindAllFrom(re, s, MatchAt(re, s, p))
         ELSE FindAllFrom(re, s, p + 1)

\* regexp.FindAllStringIndex(s, -1)
FindAllStringIndex(re, s) == FindAllFrom(re, s, 0)

RECURSIVE SplitFrom(_, _, _, _)
SplitFrom(s, matches, k, beg) ==
    IF k > Len(matches) THEN <<SubSeq(s, beg + 1, Len(s))>>
    ELSE <<SubSeq(s, beg + 1, matches[k][1])>> \o SplitFrom(s, matches, k + 1, matches[k][2])

\* regexp.Split(s, -1)
Split(re, s) ==
    IF s = <<>> THEN << <<>> >> ELSE SplitFrom(s, FindAllStringIndex(re, s), 1, 0)

\* the parts p with strings.TrimSpace(p) != ""
FilterNonBlank(ps) == SelectSeq(ps, LAMBDA p : TrimSpace(p) # <<>>)

----------------------------------------------------------------------------
(* The chunker of ProcessTextToSpeech: GetInitialChunks, the byte-based    *)
(* SplitTextByteLimit and the token-based SplitTextTokenLimit.             *)

GetInitialChunks(t) ==
    LET filteredHrParts == FilterNonBlank(Split("hr", t))
        filteredMultiNewlineParts == FilterNonBlank(Split("multiNewline", t))
        trimmedText == TrimSpace(t)
    IN  IF Len(filteredHrParts) > 1 THEN filteredHrParts
        ELSE IF Len(filteredMultiNewlineParts) > 1 THEN filteredMultiNewlineParts
        ELSE IF trimmedText = <<>> THEN <<>>
        ELSE <<trimmedText>>

RECURSIVE RuneBytesLoop(_, _, _, _, _)
\* the range loop of splitByRuneBytes and the flush after it
RuneBytesLoop(t, i, currentChunk, chunksSoFar, maxBytes) ==
    IF i > Len(t)
    THEN (IF Len(currentChunk) > 0 THEN Append(chunksSoFar, currentChunk) ELSE chunksSoFar)
    ELSE LET flush == ByteLen(Append(currentChunk, t[i])) > maxBytes
                      /\ Len(currentChunk) > 0
         IN  RuneBytesLoop(t, i + 1,
                 Append(IF flush THEN <<>> ELSE currentChunk, t[i]),
                 IF flush THEN Append(chunksSoFar, currentChunk) ELSE chunksSoFar,
                 maxBytes)

splitByRuneBytes(t, maxBytes) == RuneBytesLoop(t, 1, <<>>, <<>>, maxBytes)

RECURSIVE WordBytesLoop(_, _, _, _, _)
\* the loop of splitByWordBytes over strings.Fields(text) and the flush after it
WordBytesLoop(words, k, currentChunk, chunksSoFar, maxBytes) ==
    IF k > Len(words)
    THEN (IF Len(currentChunk) > 0 THEN Append(chunksSoFar, currentChunk) ELSE chunksSoFar)
    ELSE LET word == words[k] IN
         IF ByteLen(word) > maxBytes
         THEN WordBytesLoop(words, k + 1, <<>>,
                  (IF Len(currentChunk) > 0 THEN Append(chunksSoFar, currentChunk) ELSE chunksSoFar)
                      \o splitByRuneBytes(word, maxBytes),
                  maxBytes)
         ELSE LET over == ByteLen(currentChunk \o <<" ">> \o word) > maxBytes
                  cur  == IF over THEN <<>> ELSE currentChunk
              IN  WordBytesLoop(words, k + 1,
                      (IF Len(cur) > 0 THEN Append(cur, " ") ELSE cur) \o word,
                      IF over THEN Append(chunksSoFar, currentChunk) ELSE chunksSoFar,
                      maxBytes)

splitByWordBytes(t, maxBytes) == WordBytesLoop(Fields(t), 1, <<>>, <<>>, maxBytes)

RECURSIVE SegmentBytesLoop(_, _, _, _, _, _, _)
\* the loop of splitChunkRecursivelyBytes over the matches, the trailing
\* text and the final flush
SegmentBytesLoop(chunk, indices, k, lastPos, currentChunk, resultChunks, maxBytes) ==
    IF k > Len(indices)
    THEN LET hasTail == lastPos < Len(chunk)
             tail    == SubSeq(chunk, lastPos + 1, Len(chunk))
             flush   == hasTail /\ ByteLen(currentChunk \o tail) > maxBytes
                        /\ Len(currentChunk) > 0
             cur     == (IF flush THEN <<>> ELSE currentChunk)
                        \o (IF hasTail THEN tail ELSE <<>>)
             res     == IF flush THEN Append(resultChunks, currentChunk) ELSE resultChunks
         IN  IF Len(cur) > 0 THEN Append(res, cur) ELSE res
    ELSE LET segment == TrimSpace(SubSeq(chunk, lastPos + 1, indices[k][2])) IN
         IF segment = <<>>
         THEN SegmentBytesLoop(chunk, indices, k + 1, indices[k][2],
                               currentChunk, resultChunks, maxBytes)
         ELSE LET flush == ByteLen(currentChunk \o segment) > maxBytes
                           /\ Len(currentChunk) > 0
              IN  SegmentBytesLoop(chunk, indices, k + 1, indices[k][2],
                      (IF flush THEN <<>> ELSE currentChunk) \o segment,
                      IF flush THEN Append(resultChunks, currentChunk) ELSE resultChunks,
                      maxBytes)

LevelRegex(level) == IF level = 0 THEN "sentenceEndNewline" ELSE "sentenceEnd"

RECURSIVE splitChunkRecursivelyBytes(_, _, _)
splitChunkRecursivelyBytes(c, maxBytes, level) ==
    LET chunk == TrimSpace(c) IN
    IF chunk = <<>> THEN <<>>
    ELSE IF level = 2 THEN splitByWordBytes(chunk, maxBytes)
    ELSE IF level > 2 THEN splitByRuneBytes(chunk, maxBytes)
    ELSE LET indices == FindAllStringIndex(LevelRegex(level), chunk) IN
         IF Len(indices) = 0
         THEN splitChunkRecursivelyBytes(chunk, maxBytes, level + 1)
         ELSE SegmentBytesLoop(chunk, indices, 1, 0, <<>>, <<>>, maxBytes)

RECURSIVE InitialBytesLoop_StrictlyUnder(_, _, _)
\* a loop that keeps an initial chunk whole only when it is strictly under
\* the limit (not the code's)
InitialBytesLoop_StrictlyUnder(initialChunks, k, maxBytes) ==
    IF k > Len(initialChunks) THEN <<>>
    ELSE (IF ByteLen(initialChunks[k]) < maxBytes
          THEN <<initialChunks[k]>>
          ELSE splitChunkRecursivelyBytes(initialChunks[k], maxBytes, 0))
         \o InitialBytesLoop_StrictlyUnder(initialChunks, k + 1, maxBytes)

RECURSIVE InitialBytesLoop(_, _, _)
InitialBytesLoop(initialChunks, k, maxBytes) ==
    IF k > Len(initialChunks) THEN <<>>
    ELSE (IF ByteLen(initialChunks[k]) <= maxBytes
          THEN <<initialChunks[k]>>
          ELSE splitChunkRecursivelyBytes(initialChunks[k], maxBytes, 0))
         \o InitialBytesLoop(initialChunks, k + 1, maxBytes)

SplitTextByteLimit(t, maxBytes) ==
    LET trimmed == TrimSpace(t) IN
    IF trimmed = <<>> THEN <<>>
    ELSE InitialBytesLoop(GetInitialChunks(trimmed), 1, maxBytes)

RECURSIVE RuneLoop(_, _, _)
\* the loop of splitByRune from index i on; it returns only when maxRunes > 0
RuneLoop(runes, i, maxRunes) ==
    IF i >= Len(runes) THEN <<>>
    ELSE LET end == IF i + maxRunes > Len(runes) THEN Len(runes) ELSE i + maxRunes
         IN  <<SubSeq(runes, i + 1, end)>> \o RuneLoop(runes, i + maxRunes, maxRunes)

splitByRune(t, maxRunes) == RuneLoop(t, 0, maxRunes)

RECURSIVE WordLoop(_, _, _, _, _)
\* the loop of splitByWord over strings.Fields(text) and the flush after it
WordLoop(words, k, currentChunk, chunksSoFar, maxTokens) ==
    IF k > Len(words)
    THEN (IF Len(currentChunk) > 0 THEN Append(chunksSoFar, currentChunk) ELSE chunksSoFar)
    ELSE LET word == words[k] IN
         IF TokenCount(word) > maxTokens
         THEN WordLoop(words, k + 1, <<>>,
                  (IF Len(currentChunk) > 0 THEN Append(chunksSoFar, currentChunk) ELSE chunksSoFar)
                      \o splitByRune(word, maxTokens * 3),
                  maxTokens)
         ELSE LET over == TokenCount(currentChunk \o <<" ">> \o word) > maxTokens
                  cur  == IF over THEN <<>> ELSE currentChunk
              IN  WordLoop(words, k + 1,
                      (IF Len(cur) > 0 THEN Append(cur, " ") ELSE cur) \o word,
                      IF over THEN Append(chunksSoFar, currentChunk) ELSE chunksSoFar,
                      maxTokens)

splitByWord(t, maxTokens) == WordLoop(Fields(t), 1, <<>>, <<>>, maxTokens)

RECURSIVE SegmentLoop(_, _, _, _, _, _, _)
\* the loop of splitChunkRecursively over the matches, the trailing text and
\* the final flush
SegmentLoop(chunk, indices, k, lastPos, currentChunk, resultChunks, maxTokens) ==
    IF k > Len(indices)
    THEN LET hasTail == lastPos < Len(chunk)
             tail    == SubSeq(chunk, lastPos + 1, Len(chunk))
             flush   == hasTail /\ TokenCount(currentChunk \o tail) > maxTokens
                        /\ Len(currentChunk) > 0
             cur     == (IF flush THEN <<>> ELSE currentChunk)
                        \o (IF hasTail THEN tail ELSE <<>>)
             res     == IF flush THEN Append(resultChunks, currentChunk) ELSE resultChunks
         IN  IF Len(cur) > 0 THEN Append(res, cur) ELSE res
    ELSE LET segment == TrimSpace(SubSeq(chunk, lastPos + 1, indices[k][2])) IN
         IF segment = <<>>
         THEN SegmentLoop(chunk, indices, k + 1, indices[k][2],
                          currentChunk, resultChunks, maxTokens)
         ELSE LET flush == TokenCount(currentChunk \o segment) > maxTokens
                           /\ Len(currentChunk) > 0
              IN  SegmentLoop(chunk, indices, k + 1, indices[k][2],
                      (IF flush THEN <<>> ELSE currentChunk) \o segment,
                      IF flush THEN Append(resultChunks, currentChunk) ELSE resultChunks,
                      maxTokens)

RECURSIVE splitChunkRecursively(_, _, _)
splitChunkRecursively(c, maxTokens, level) ==
    LET chunk == TrimSpace(c) IN
    IF chunk = <<>> THEN <<>>
    ELSE IF level = 2 THEN splitByWord(chunk, maxTokens)
    ELSE IF level > 2 THEN splitByRune(chunk, maxTokens * 3)
    ELSE LET indices == FindAllStringIndex(LevelRegex(level), chunk) IN
         IF Len(indices) = 0
         THEN splitChunkRecursively(chunk, maxTokens, level + 1)
         ELSE SegmentLoop(chunk, indices, 1, 0, <<>>, <<>>, maxTokens)

RECURSIVE InitialTokenLoop(_, _, _)
InitialTokenLoop(initialChunks, k, maxTokens) ==
    IF k > Len(initialChunks) THEN <<>>
    ELSE (IF TokenCount(initialChunks[k]) <= maxTokens
          THEN <<initialChunks[k]>>
          ELSE splitChunkRecursively(initialChunks[k], maxTokens, 0))
         \o InitialTokenLoop(initialChunks, k + 1, maxTokens)

\* hasEnc: whether tiktoken.GetEncoding("cl100k_base") returned an encoding
SplitTextTokenLimit(t, maxTokens, hasEnc) ==
    LET trimmed == TrimSpace(t) IN
    IF trimmed = <<>> THEN <<>>
    ELSE IF ~hasEnc THEN splitByRune(trimmed, maxTokens * 3)
    ELSE InitialTokenLoop(GetInitialChunks(trimmed), 1, maxTokens)

----------------------------------------------------------------------------
(* The chunker of chunk.go (splitText, used by Client.GenerateSpeechChunks *)
(* and generateSpeechInternal).  Its functions carry the suffix _chunkgo   *)
(* where the package has a second function of the same name.               *)
(*                                                                         *)
(* testBuilder := chunkBuilder copies a strings.Builder by value; a write  *)
(* to the copy of a Builder that has been written to panics ("illegal use  *)
(* of non-zero Builder copied by value").  A result is therefore           *)
(* [panic |-> BOOLEAN, chunks |-> the []string returned when no panic].    *)

Returned(chunksSoFar) == [panic |-> FALSE, chunks |-> chunksSoFar]
Panicked == [panic |-> TRUE, chunks |-> <<>>]

splitByRune_chunkgo(t, maxTokens) ==
    LET step3 == maxTokens * 3
        step2 == IF step3 <= 0 THEN maxTokens ELSE step3
        step  == IF step2 <= 0 THEN 1 ELSE step2
    IN  IF Len(t) = 0 THEN <<>> ELSE RuneLoop(t, 0, step)

RECURSIVE WordLoop_chunkgo(_, _, _, _, _)
\* chunkBuilder and currentChunkStr always hold the same string
WordLoop_chunkgo(words, k, chunkBuilder, chunksSoFar, maxTokens) ==
    IF k > Len(words)
    THEN Returned(IF Len(chunkBuilder) > 0 THEN Append(chunksSoFar, chunkBuilder) ELSE chunksSoFar)
    ELSE LET word == words[k] IN
         IF TokenCount(word) > maxTokens
         THEN WordLoop_chunkgo(words, k + 1, <<>>,
                  (IF Len(chunkBuilder) > 0 THEN Append(chunksSoFar, chunkBuilder) ELSE chunksSoFar)
                      \o splitByRune_chunkgo(word, maxTokens),
                  maxTokens)
         ELSE IF Len(chunkBuilder) > 0
         THEN Panicked      \* testBuilder.WriteString(" ") on the copy
         ELSE LET testStr == word IN
              IF TokenCount(testStr) <= maxTokens
              THEN WordLoop_chunkgo(words, k + 1, testStr, chunksSoFar, maxTokens)
              ELSE WordLoop_chunkgo(words, k + 1, <<>>,
                       chunksSoFar \o splitByRune_chunkgo(word, maxTokens), maxTokens)

splitByWord_chunkgo(t, maxTokens) ==
    IF Len(Fields(t)) = 0 THEN Returned(<<>>)
    ELSE WordLoop_chunkgo(Fields(t), 1, <<>>, <<>>, maxTokens)

\* the segments handed to processSegment: one per match, then the tail
SegmentsOf(chunk, indices) ==
    LET n == Len(indices)
        start(k) == IF k = 1 THEN 0 ELSE indices[k - 1][2]
        lastPos  == indices[n][2]
    IN  [k \in 1..n |-> SubSeq(chunk, start(k) + 1, indices[k][2])]
        \o (IF lastPos < Len(chunk) THEN <<SubSeq(chunk, lastPos + 1, Len(chunk))>> ELSE <<>>)

RECURSIVE splitChunkRecursively_chunkgo(_, _, _)
RECURSIVE ProcessSegments(_, _, _, _, _, _)
\* processSegment applied to segs[k..], then the flush of the last built chunk
ProcessSegments(segs, k, chunkBuilder, resultChunks, maxTokens, nextLevel) ==
    IF k > Len(segs)
    THEN Returned(IF Len(chunkBuilder) > 0 THEN Append(resultChunks, chunkBuilder)
                  ELSE resultChunks)
    ELSE LET segment == TrimSpace(segs[k]) IN
         IF segment = <<>>
         THEN ProcessSegments(segs, k + 1, chunkBuilder, resultChunks, maxTokens, nextLevel)
         ELSE IF TokenCount(segment) > maxTokens
         THEN LET sub == splitChunkRecursively_chunkgo(segment, maxTokens, nextLevel) IN
              IF sub.panic THEN Panicked
              ELSE ProcessSegments(segs, k + 1, <<>>,
                       (IF Len(chunkBuilder) > 0 THEN Append(resultChunks, chunkBuilder)
                        ELSE resultChunks) \o sub.chunks,
                       maxTokens, nextLevel)
         ELSE IF Len(chunkBuilder) > 0
         THEN Panicked      \* testBuilder.WriteString(" ") on the copy
         ELSE LET testChunkStr == segment IN
              IF TokenCount(testChunkStr) <= maxTokens
              THEN ProcessSegments(segs, k + 1, testChunkStr, resultChunks,
                                   maxTokens, nextLevel)
              ELSE LET sub == splitChunkRecursively_chunkgo(segment, maxTokens, nextLevel) IN
                   IF sub.panic THEN Panicked
                   ELSE ProcessSegments(segs, k + 1, <<>>, resultChunks \o sub.chunks,
                                        maxTokens, nextLevel)

splitChunkRecursively_chunkgo(c, maxTokens, level) ==
    LET chunk == TrimSpace(c) IN
    IF chunk = <<>> THEN Returned(<<>>)
    ELSE IF level = 2 THEN splitByWord_chunkgo(chunk, maxTokens)
    ELSE IF level > 2 THEN Returned(splitByRune_chunkgo(chunk, maxTokens))
    ELSE LET indices == FindAllStringIndex(LevelRegex(level), chunk) IN
         IF Len(indices) = 0
         THEN splitChunkRecursively_chunkgo(chunk, maxTokens, level + 1)
         ELSE ProcessSegments(SegmentsOf(chunk, indices), 1, <<>>, <<>>,
                              maxTokens, level + 1)

\* getInitialChunks of chunk.go is GetInitialChunks line for line
getInitialChunks(t) == GetInitialChunks(t)

RECURSIVE InitialLoop_chunkgo(_, _, _)
InitialLoop_chunkgo(initialChunks, k, maxTokens) ==
    IF k > Len(initialChunks) THEN Returned(<<>>)
    ELSE LET chunk == TrimSpace(initialChunks[k])
             here  == IF chunk = <<>> THEN Returned(<<>>)
                      ELSE IF TokenCount(chunk) <= maxTokens THEN Returned(<<chunk>>)
                      ELSE splitChunkRecursively_chunkgo(chunk, maxTokens, 0)
             rest  == InitialLoop_chunkgo(initialChunks, k + 1, maxTokens)
         IN  IF here.panic \/ rest.panic THEN Panicked
             ELSE Returned(here.chunks \o rest.chunks)

RECURSIVE PostProcess(_, _, _)
\* the safety net of splitText
PostProcess(resultChunks, k, maxTokens) ==
    IF k > Len(resultChunks) THEN <<>>
    ELSE (IF TokenCount(resultChunks[k]) <= maxTokens
          THEN <<resultChunks[k]>>
          ELSE splitByRune_chunkgo(resultChunks[k], maxTokens))
         \o PostProcess(resultChunks, k + 1, maxTokens)

\* hasEnc: whether tiktoken.GetEncoding returned an encoding (for the model
\* or for the cl100k_base fallback)
splitText(t, maxTokens, hasEnc) ==
    LET trimmed == TrimSpace(t) IN
    IF trimmed = <<>> THEN Returned(<<>>)
    ELSE IF ~hasEnc THEN Returned(splitByRune_chunkgo(trimmed, maxTokens))
    ELSE LET r == InitialLoop_chunkgo(getInitialChunks(trimmed), 1, maxTokens) IN
         IF r.panic THEN Panicked
         ELSE Returned(PostProcess(r.chunks, 1, maxTokens))

----------------------------------------------------------------------------
(* Chunker harness: the inputs are drawn in Init, an action applies one    *)
(* entry point of the chunker to them.                                     *)

HR == <<"\n", "-", "-", "-", "\n">>

\* a blank line between two lines
BlankLine == <<"\n", "\n">>

Pieces == {<<"a">>, <<"E">>, <<" ">>, <<"\n">>, <<".">>, HR, BlankLine}

TextsOfLen(n) == {Flatten(ps) : ps \in [1..n -> Pieces]}

Texts == UNION {TextsOfLen(n) : n \in 0..MaxPieces}

ChunkIdle ==
    /\ text = <<>> /\ budget = 0 /\ fn = "none" /\ encOk = TRUE
    /\ units = <<>> /\ panicked = FALSE

InitChunk ==
    /\ text \in Texts
    /\ budget \in 0..MaxBudget
    /\ fn = "none" /\ encOk = TRUE /\ units = <<>> /\ panicked = FALSE

ApplySplitTextByteLimit ==
    /\ fn = "none"
    /\ fn' = "SplitTextByteLimit"
    /\ units' = SplitTextByteLimit(text, budget)
    /\ UNCHANGED <<text, budget, encOk, panicked>>
    /\ UNCHANGED nonChunkVars

\* with maxTokens = 0 the call returns only for blank text: its splitByRune
\* loop does not advance (RuneIterate below)
ApplySplitTextTokenLimit ==
    /\ fn = "none"
    /\ budget >= 1 \/ TrimSpace(text) = <<>>
    /\ \E ok \in BOOLEAN :
         /\ encOk' = ok
         /\ units' = SplitTextTokenLimit(text, budget, ok)
    /\ fn' = "SplitTextTokenLimit"
    /\ UNCHANGED <<text, budget, panicked>>
    /\ UNCHANGED nonChunkVars

ApplySplitText ==
    /\ fn = "none"
    /\ \E ok \in BOOLEAN :
         /\ encOk' = ok
         /\ units' = splitText(text, budget, ok).chunks
         /\ panicked' = splitText(text, budget, ok).panic
    /\ fn' = "splitText"
    /\ UNCHANGED <<text, budget>>
    /\ UNCHANGED nonChunkVars

----------------------------------------------------------------------------
(* The loop of splitByRune (token chunker), one iteration per step, as it  *)
(* is called from splitByWord for a word of more than maxTokens tokens.    *)

RECURSIVE WordsOfLen(_)
WordsOfLen(n) ==
    IF n = 0 THEN {<<>>}
    ELSE {Append(w, c) : w \in WordsOfLen(n - 1), c \in {"a", "E"}}

Words == UNION {WordsOfLen(n) : n \in 1..MaxWordLen}

RuneIdle ==
    /\ runeText = <<>> /\ runeMax = 0 /\ runeI = 0 /\ runeChunks = <<>>
    /\ runePc = "off"

InitRune ==
    /\ runeText \in Words
    /\ \E maxTokens \in 0..MaxBudget :
         /\ TokenCount(runeText) > maxTokens
         /\ runeMax = maxTokens * 3
    /\ runeI = 0 /\ runeChunks = <<>> /\ runePc = "loop"

\* one iteration: chunks = append(chunks, runes[i:end]); i += maxRunes
RuneIterate ==
    /\ runePc = "loop"
    /\ runeI < Len(runeText)
    /\ Len(runeChunks) < MaxRuneIters
    /\ LET end == IF runeI + runeMax > Len(runeText) THEN Len(runeText)
                  ELSE runeI + runeMax
       IN  runeChunks' = Append(runeChunks, SubSeq(runeText, runeI + 1, end))
    /\ runeI' = runeI + runeMax
    /\ UNCHANGED <<runeText, runeMax, runePc>>
    /\ UNCHANGED nonRuneVars

RuneReturn ==
    /\ runePc = "loop"
    /\ runeI >= Len(runeText)
    /\ runePc' = "done"
    /\ UNCHANGED <<runeText, runeMax, runeI, runeChunks>>
    /\ UNCHANGED nonRuneVars

----------------------------------------------------------------------------
(* processor.go: ProcessTextToSpeech and processChunkRecursivelyWithDepth  *)

Nil == "nil"

\* the recursion depth guard of processChunkRecursivelyWithDepth
MaxRecursionLevel == 20

DefaultByteLimit == 4500
DefaultTokenLimit == 2000

\* DefaultProcessorConfig()
DefaultProcessorConfig ==
    [MinChunkBytes |-> 1, MaxRetries |-> 3, GoogleFallbackVoices |-> Nil]

\* the error messages a provider call returns in the model
ProviderErrors == {"502 Bad Gateway", "quota exceeded", "invalid argument"}
ContextErrors  == {"context canceled", "context deadline exceeded"}

\* strings.Contains(strings.ToLower(err.Error()), ...), message by message
isRetryableTTS(err) ==
    err \in {"502 Bad Gateway", "quota exceeded", "context deadline exceeded"}

isQuotaOrRateError(err) ==
    err \in {"quota exceeded", "context deadline exceeded"}

IsSafeRune(c) ==
    c \in {"a", "b", "c", "d", "e", "f", "g", "h", "i", "j", "k", "l", "m", "n",
           "o", "p", "q", "r", "s", "t", "u", "v", "w", "x", "y", "z",
           "A", "B", "C", "D", "F", "G", "H", "I", "J", "K", "L", "M", "N",
           "O", "P", "Q", "R", "S", "T", "U", "V", "W", "X", "Y", "Z",
           "0", "1", "2", "3", "4", "5", "6", "7", "8", "9", " "}

\* keeps [a-zA-Z0-9 ]; the rune "E" of the model is not ASCII
sanitizeWordForTTS(t) == SelectSeq(t, IsSafeRune)

\* the backtick rune
Backtick == "backtick"

\* the pattern of stripMarkdown as the regexp package reads it: the class
\* ends at its first "]", so the pattern is one rune of { \ * _ # [ }, an
\* empty group, the runes > ~ and backtick, and one or more "]"
MarkdownMatchAt(t, p) ==
    IF /\ p + 5 <= Len(t)
       /\ t[p + 1] \in {"\\", "*", "_", "#", "["}
       /\ t[p + 2] = ">" /\ t[p + 3] = "~" /\ t[p + 4] = Backtick /\ t[p + 5] = "]"
    THEN RunEnd(t, p + 5, "]") - 1
    ELSE -1

RECURSIVE StripFrom(_, _)
StripFrom(t, p) ==
    IF p >= Len(t) THEN <<>>
    ELSE IF MarkdownMatchAt(t, p) # -1 THEN StripFrom(t, MarkdownMatchAt(t, p))
    ELSE <<t[p + 1]>> \o StripFrom(t, p + 1)

\* reg.ReplaceAllString(s, "")
stripMarkdown(t) == StripFrom(t, 0)

\* a voice is the sequence of its "-"-separated parts
extractLangCode(voice) ==
    IF Len(voice) >= 2 THEN <<voice[1], voice[2]>> ELSE <<"en", "US">>

buildFallbackVoices(origLang, origVoice) ==
    LET origSuffix == IF Len(origVoice) >= 2 THEN origVoice[Len(origVoice)] ELSE ""
    IN  << origLang \o <<"Chirp3", "HD", origSuffix>>,
           origLang \o <<"Chirp", "HD", "O">>,
           origLang \o <<"Neural2", "G">>,
           origLang \o <<"Standard", "G">>,
           origLang \o <<"Studio", "C">> >>

\* "en-US-" + origVoice
SubstituteVoice(origVoice) == <<"en", "US">> \o origVoice

\* "Error converting Text. Continuing."
SubstituteText == <<"Error converting Text. Continuing.">>

\* the %.40s of the messages
Preview(chunk) == SubSeq(chunk, 1, IF Len(chunk) < 40 THEN Len(chunk) ELSE 40)

----------------------------------------------------------------------------
(* The job: ProcessTextToSpeech as handleSubmit calls it (cfg = nil, both   *)
(* callbacks non-nil), one step per provider call or blocking point.       *)

\* request.Text of the jobs
PipeTexts ==
    { <<>>,
      <<" ", "\n">>,
      <<"a">>,
      <<"a", ".">>,
      <<"a", " ", "b">>,
      <<"a", " ", "*">>,
      <<"a", "\n", "\n", "b", "b">>,
      <<"a", "*", ">", "~", Backtick, "]">> }

\* GetDefaultVoice() of the Google and of the OpenAI provider
GoogleDefaultVoice == <<"de", "DE", "Chirp3", "HD", "Kore">>
OpenAIDefaultVoice == <<"shimmer">>

\* a token-limited provider with a limit small enough for the texts drawn
SmallTokenLimit == 3

\* provider.GetName() == "google", provider.GetMaxTokensPerChunk(), whether
\* tiktoken.GetEncoding succeeds, and the ProcessorConfig
Jobs ==
    {[isGoogle |-> TRUE, maxTokens |-> DefaultByteLimit \div 3, hasEnc |-> TRUE,
      cfg |-> DefaultProcessorConfig]}
    \cup
    {[isGoogle |-> FALSE, maxTokens |-> m, hasEnc |-> e, cfg |-> DefaultProcessorConfig] :
        m \in {SmallTokenLimit, DefaultTokenLimit}, e \in BOOLEAN}

\* a token-limited provider whose halved limit still holds a two-word unit,
\* and a text whose second sentence becomes a sub-unit with a leading space
MidTokenLimit == 8

MidTokenJob ==
    [isGoogle |-> FALSE, maxTokens |-> MidTokenLimit, hasEnc |-> TRUE,
     cfg |-> DefaultProcessorConfig]

TwoSentences == <<".", " ", "a", " ", "b">>

\* the provider and the request.Text of the jobs
JobTexts == (Jobs \X PipeTexts) \cup {<<MidTokenJob, TwoSentences>>}

\* the request template of handleSubmit
RequestOf(j, t) ==
    [Text |-> t,
     Voice |-> IF j.isGoogle THEN GoogleDefaultVoice ELSE OpenAIDefaultVoice,
     Speed |-> 1, Format |-> "mp3",
     Model |-> IF j.isGoogle THEN "" ELSE "gpt-4o-mini-tts",
     LanguageCode |-> "", Instructions |-> ""]

PipeIdle ==
    /\ pc = "off" /\ job = Nil /\ request = Nil /\ chunks = <<>> /\ totalChunks = 0
    /\ idx = 0 /\ stack = <<>> /\ audioData = <<>> /\ completed = 0
    /\ progressLog = <<>> /\ errorLog = <<>> /\ failures = 0 /\ unitReturns = <<>>
    /\ ctxErr = Nil /\ result = Nil

InitPipe ==
    /\ pc = "start"
    /\ \E jt \in JobTexts : job = jt[1] /\ request = RequestOf(jt[1], jt[2])
    /\ chunks = <<>> /\ totalChunks = 0 /\ idx = 0 /\ stack = <<>>
    /\ audioData = <<>> /\ completed = 0
    /\ progressLog = <<>> /\ errorLog = <<>> /\ failures = 0 /\ unitReturns = <<>>
    /\ ctxErr = Nil /\ result = Nil

NewFrame(chunk, level) ==
    [chunk |-> chunk, recursionLevel |-> level, stage |-> "entry", attempt |-> 0,
     err |-> Nil, subChunks |-> <<>>, subIdx |-> 0, audio |-> <<>>, voiceIdx |-> 0,
     calls |-> <<>>, retryableFails |-> 0]

Top == stack[Len(stack)]
InFrame(stage) == pc = "loop" /\ stack # <<>> /\ Top.stage = stage

\* what a provider call may return: audio, or an error
Outcomes ==
    {"ok"} \cup (IF failures < MaxFailures
                 THEN ProviderErrors \cup (IF ctxErr = Nil THEN {} ELSE {ctxErr})
                 ELSE {})

\* the audio a successful call returns: one blob, which names the call
AudioOf(call) ==
    <<[unit |-> call.unit, level |-> call.level, call |-> call.n, Text |-> call.Text]>>

frameFixed == <<pc, job, request, chunks, totalChunks, ctxErr, result>>
noCall     == <<completed, progressLog, failures>>

\* a closure that reports the count it had before this unit (not the code's)
ProgressCb_ReportsBeforeCounting ==
    /\ completed' = completed + 1
    /\ progressLog' = Append(progressLog, <<completed, totalChunks>>)

\* a closure that reports the units still to do (not the code's)
ProgressCb_ReportsRemaining ==
    /\ completed' = completed + 1
    /\ progressLog' = Append(progressLog, <<totalChunks - completed, totalChunks>>)

\* the closure handed down by ProcessTextToSpeech: completed++, progressCb(completed, totalChunks)
ProgressCb ==
    /\ completed' = completed + 1
    /\ progressLog' = Append(progressLog, <<completed + 1, totalChunks>>)

Goto(frame) ==
    /\ stack' = [stack EXCEPT ![Len(stack)] = frame]
    /\ UNCHANGED <<audioData, unitReturns, idx>>

\* a request literal that leaves Model out (not the code's)
Call_WithoutModel(t, voice) ==
    [Text |-> t, Voice |-> voice, Speed |-> request.Speed,
     Format |-> request.Format, Model |-> "",
     LanguageCode |-> "", Instructions |-> "",
     stage |-> stack[Len(stack)].stage, level |-> stack[Len(stack)].recursionLevel,
     unit |-> idx, n |-> Len(stack[Len(stack)].calls) + 1]

\* provider.GenerateSpeech(ctx, &UnifiedRequest{Text: t, Voice: voice, ...});
\* the literal names five fields, the other two are zero
Call(t, voice) ==
    [Text |-> t, Voice |-> voice, Speed |-> request.Speed,
     Format |-> request.Format, Model |-> request.Model,
     LanguageCode |-> "", Instructions |-> "",
     stage |-> Top.stage, level |-> Top.recursionLevel, unit |-> idx,
     n |-> Len(Top.calls) + 1]

\* data, err := provider.GenerateSpeech(...); on success progressCb() and
\* return data, nil is next; on failure the frame goes on as onError says
Issue(t, voice, outcome, onError) ==
    LET call == Call(t, voice)
        f    == [Top EXCEPT !.calls = Append(@, call)]
    IN  IF outcome = "ok"
        THEN /\ ProgressCb
             /\ UNCHANGED failures
             /\ Goto([f EXCEPT !.stage = "return", !.audio = AudioOf(call), !.err = Nil])
        ELSE /\ UNCHANGED <<completed, progressLog>>
             /\ failures' = failures + 1
             /\ Goto([onError EXCEPT !.calls = f.calls, !.err = outcome])

\* errorCb(msg)
ErrorCb(kind, chunk) ==
    errorLog' = Append(errorLog, [kind |-> kind, preview |-> Preview(chunk), unit |-> idx])

\* a sub-chunk loop that breaks at the first failed sub-chunk (not the code's)
ReturnToCaller_BreakOnError(data, err) ==
    IF Len(stack) = 1
    THEN /\ stack' = <<>>
         /\ audioData' = IF err = Nil THEN audioData \o data ELSE audioData
         /\ unitReturns' = Append(unitReturns, [data |-> data, err |-> err])
         /\ idx' = idx + 1
    ELSE LET parent == stack[Len(stack) - 1]
             after  == [parent EXCEPT !.audio = IF err = Nil THEN @ \o data ELSE @,
                                      !.subIdx = IF err = Nil THEN @ + 1
                                                 ELSE Len(parent.subChunks) + 1]
         IN  /\ stack' = Append(SubSeq(stack, 1, Len(stack) - 2), after)
             /\ UNCHANGED <<audioData, unitReturns, idx>>

\* return data, err: to the sub-chunk loop of the calling frame, or to the
\* range loop of ProcessTextToSpeech
ReturnToCaller(data, err) ==
    IF Len(stack) = 1
    THEN /\ stack' = <<>>
         /\ audioData' = IF err = Nil THEN audioData \o data ELSE audioData
         /\ unitReturns' = Append(unitReturns, [data |-> data, err |-> err])
         /\ idx' = idx + 1
    ELSE LET parent == stack[Len(stack) - 1]
             after  == [parent EXCEPT !.audio = IF err = Nil THEN @ \o data ELSE @,
                                      !.subIdx = @ + 1]
         IN  /\ stack' = Append(SubSeq(stack, 1, Len(stack) - 2), after)
             /\ UNCHANGED <<audioData, unitReturns, idx>>

\* the guard of MIN_CHUNK_LOGIC
IsMinChunk(chunk) ==
    \/ Len(Fields(chunk)) = 1 /\ ByteLen(chunk) < 200
    \/ ByteLen(chunk) <= job.cfg.MinChunkBytes

FallbackVoices ==
    IF job.cfg.GoogleFallbackVoices = Nil
    THEN buildFallbackVoices(extractLangCode(request.Voice), request.Voice)
    ELSE job.cfg.GoogleFallbackVoices

\* where MIN_CHUNK_LOGIC goes once the markdown-stripped request is behind
StageAfterStrip ==
    IF job.isGoogle
    THEN (IF Len(FallbackVoices) > 0 THEN "voices" ELSE "substitute")
    ELSE "fail"

StageAfterSanitize(chunk) ==
    IF stripMarkdown(chunk) # chunk /\ stripMarkdown(chunk) # <<>>
    THEN "strip" ELSE StageAfterStrip

\* where control goes from the label MIN_CHUNK_LOGIC
StageFromMin(chunk) ==
    IF ~IsMinChunk(chunk) THEN "fail"
    ELSE IF sanitizeWordForTTS(chunk) # chunk /\ sanitizeWordForTTS(chunk) # <<>>
    THEN "sanitize" ELSE StageAfterSanitize(chunk)

\* a job that hands the text itself to the loop when the chunker returns no
\* unit (not the code's)
ProcessTextToSpeech_WholeTextWhenNoUnit ==
    LET split == IF job.isGoogle
                 THEN SplitTextByteLimit(request.Text, DefaultByteLimit)
                 ELSE SplitTextTokenLimit(request.Text, job.maxTokens, job.hasEnc)
    IN
    /\ pc = "start"
    /\ chunks' = IF split = <<>> THEN <<request.Text>> ELSE split
    /\ totalChunks' = Len(chunks')
    /\ idx' = 1
    /\ pc' = "loop"
    /\ UNCHANGED <<job, request, stack, audioData, completed, progressLog, errorLog,
                   failures, unitReturns, ctxErr, result>>
    /\ UNCHANGED nonPipeVars

ProcessTextToSpeech ==
    /\ pc = "start"
    /\ chunks' = IF job.isGoogle
                 THEN SplitTextByteLimit(request.Text, DefaultByteLimit)
                 ELSE SplitTextTokenLimit(request.Text, job.maxTokens, job.hasEnc)
    /\ totalChunks' = Len(chunks')
    /\ idx' = 1
    /\ pc' = "loop"
    /\ UNCHANGED <<job, request, stack, audioData, completed, progressLog, errorLog,
                   failures, unitReturns, ctxErr, result>>
    /\ UNCHANGED nonPipeVars

\* for _, chunk := range chunks { processChunkRecursively(...) }
EnterChunk ==
    /\ pc = "loop" /\ stack = <<>> /\ idx <= Len(chunks)
    /\ stack' = <<NewFrame(chunks[idx], 0)>>
    /\ UNCHANGED <<audioData, unitReturns, idx, errorLog>> /\ UNCHANGED noCall
    /\ UNCHANGED frameFixed /\ UNCHANGED nonPipeVars

\* a range loop that returns nil, err at the first failed unit (not the code's)
Finish_AbortOnError ==
    LET failed == unitReturns # <<>> /\ unitReturns[Len(unitReturns)].err # Nil IN
    /\ pc = "loop" /\ stack = <<>>
    /\ idx > Len(chunks) \/ failed
    /\ pc' = "done"
    /\ result' = IF failed
                 THEN [audio |-> <<>>, err |-> unitReturns[Len(unitReturns)].err]
                 ELSE [audio |-> audioData, err |-> Nil]
    /\ UNCHANGED <<job, request, chunks, totalChunks, idx, stack, audioData, completed,
                   progressLog, errorLog, failures, unitReturns, ctxErr>>
    /\ UNCHANGED nonPipeVars

\* return audioData, nil
Finish ==
    /\ pc = "loop" /\ stack = <<>> /\ idx > Len(chunks)
    /\ pc' = "done"
    /\ result' = [audio |-> audioData, err |-> Nil]
    /\ UNCHANGED <<job, request, chunks, totalChunks, idx, stack, audioData, completed,
                   progressLog, errorLog, failures, unitReturns, ctxErr>>
    /\ UNCHANGED nonPipeVars

\* an entry without the recursion depth guard (not the code's)
Entry_NoDepthGuard ==
    /\ InFrame("entry")
    /\ IF ctxErr # Nil
       THEN ReturnToCaller(<<>>, ctxErr) /\ UNCHANGED errorLog
       ELSE Goto(IF 1 <= job.cfg.MaxRetries
                 THEN [Top EXCEPT !.stage = "attempt", !.attempt = 1]
                 ELSE [Top EXCEPT !.stage = "subchunk"])
            /\ UNCHANGED errorLog
    /\ UNCHANGED noCall
    /\ UNCHANGED frameFixed /\ UNCHANGED nonPipeVars

\* the context check and the recursion depth guard
Entry ==
    /\ InFrame("entry")
    /\ IF ctxErr # Nil
       THEN ReturnToCaller(<<>>, ctxErr) /\ UNCHANGED errorLog
       ELSE IF Top.recursionLevel > MaxRecursionLevel
       THEN ErrorCb("depth", Top.chunk)
            /\ ReturnToCaller(<<>>, "recursion depth exceeded")
       ELSE Goto(IF 1 <= job.cfg.MaxRetries
                 THEN [Top EXCEPT !.stage = "attempt", !.attempt = 1]
                 ELSE [Top EXCEPT !.stage = "subchunk"])
            /\ UNCHANGED errorLog
    /\ UNCHANGED noCall
    /\ UNCHANGED frameFixed /\ UNCHANGED nonPipeVars

\* a retry loop without its attempt bound (not the code's)
RetryAgain_Unbounded(attempt, err) == isRetryableTTS(err)

\* whether the retry loop goes round again after err on this attempt
RetryAgain(attempt, err) == attempt < job.cfg.MaxRetries /\ isRetryableTTS(err)

\* 1. one iteration of the retry loop, up to its sleep
Attempt ==
    /\ InFrame("attempt")
    /\ \E o \in Outcomes :
         /\ Issue(Top.chunk, request.Voice, o,
                  [Top EXCEPT !.stage = IF RetryAgain(Top.attempt, o)
                                        THEN "backoff" ELSE "subchunk",
                              !.retryableFails = IF isRetryableTTS(o) THEN @ + 1 ELSE @])
         /\ IF o # "ok" /\ RetryAgain(Top.attempt, o) /\ isQuotaOrRateError(o)
            THEN ErrorCb("rate", <<>>)
            ELSE UNCHANGED errorLog
    /\ UNCHANGED frameFixed /\ UNCHANGED nonPipeVars

\* time.Sleep(delay) returns; continue
BackoffElapsed ==
    /\ InFrame("backoff")
    /\ Goto([Top EXCEPT !.stage = "attempt", !.attempt = @ + 1])
    /\ UNCHANGED errorLog /\ UNCHANGED noCall
    /\ UNCHANGED frameFixed /\ UNCHANGED nonPipeVars

\* the budget handed to the chunker when sub-chunking: chunkBytes/2, or
\* provider.GetMaxTokensPerChunk()/2
SubBudget(chunk) ==
    IF job.isGoogle THEN ByteLen(chunk) \div 2 ELSE job.maxTokens \div 2

SubChunksOf(chunk) ==
    IF job.isGoogle
    THEN SplitTextByteLimit(chunk, SubBudget(chunk))
    ELSE SplitTextTokenLimit(chunk, SubBudget(chunk), job.hasEnc)

\* 2. sub-chunking if possible, else on to MIN_CHUNK_LOGIC
SubChunk ==
    /\ InFrame("subchunk")
    /\ LET chunk == Top.chunk IN
       IF ByteLen(chunk) > job.cfg.MinChunkBytes /\ Len(Fields(chunk)) > 1
       THEN LET subChunks == SubChunksOf(chunk) IN
            IF Len(subChunks) = 1 /\ ByteLen(subChunks[1]) = ByteLen(chunk)
            THEN Goto([Top EXCEPT !.stage = StageFromMin(chunk)])
            ELSE Goto([Top EXCEPT !.stage = "subs", !.subChunks = subChunks,
                                  !.subIdx = 1, !.audio = <<>>])
       ELSE Goto([Top EXCEPT !.stage = StageFromMin(chunk)])
    /\ UNCHANGED errorLog /\ UNCHANGED noCall
    /\ UNCHANGED frameFixed /\ UNCHANGED nonPipeVars

\* the recursive call for the next sub-chunk
EnterSubChunk ==
    /\ InFrame("subs")
    /\ Top.subIdx <= Len(Top.subChunks)
    /\ stack' = Append(stack, NewFrame(Top.subChunks[Top.subIdx], Top.recursionLevel + 1))
    /\ UNCHANGED <<audioData, unitReturns, idx, errorLog>> /\ UNCHANGED noCall
    /\ UNCHANGED frameFixed /\ UNCHANGED nonPipeVars

\* after the sub-chunk loop: return the audio gathered, if any
SubChunksDone ==
    /\ InFrame("subs")
    /\ Top.subIdx > Len(Top.subChunks)
    /\ Goto(IF Len(Top.audio) > 0
            THEN [Top EXCEPT !.stage = "return", !.err = Nil]
            ELSE [Top EXCEPT !.stage = StageFromMin(Top.chunk)])
    /\ UNCHANGED errorLog /\ UNCHANGED noCall
    /\ UNCHANGED frameFixed /\ UNCHANGED nonPipeVars

\* 3. the request with the sanitized text
TrySanitized ==
    /\ InFrame("sanitize")
    /\ \E o \in Outcomes :
         Issue(sanitizeWordForTTS(Top.chunk), request.Voice, o,
               [Top EXCEPT !.stage = StageAfterSanitize(Top.chunk)])
    /\ UNCHANGED errorLog
    /\ UNCHANGED frameFixed /\ UNCHANGED nonPipeVars

\* the request with the markdown-stripped text
TryMarkdownStripped ==
    /\ InFrame("strip")
    /\ \E o \in Outcomes :
         Issue(stripMarkdown(Top.chunk), request.Voice, o,
               [Top EXCEPT !.stage = StageAfterStrip])
    /\ UNCHANGED errorLog
    /\ UNCHANGED frameFixed /\ UNCHANGED nonPipeVars

\* a loop that takes the fallback voices from the end of the list (not the
\* code's)
TryFallbackVoice_ReverseOrder ==
    /\ InFrame("voices")
    /\ \E o \in Outcomes :
         LET v == Top.voiceIdx + 1 IN
         Issue(Top.chunk, FallbackVoices[Len(FallbackVoices) + 1 - v], o,
               IF v < Len(FallbackVoices)
               THEN [Top EXCEPT !.voiceIdx = v]
               ELSE [Top EXCEPT !.voiceIdx = v, !.stage = "substitute"])
    /\ UNCHANGED errorLog
    /\ UNCHANGED frameFixed /\ UNCHANGED nonPipeVars

\* one iteration of the loop over the fallback voices (Google)
TryFallbackVoice ==
    /\ InFrame("voices")
    /\ \E o \in Outcomes :
         LET v == Top.voiceIdx + 1 IN
         Issue(Top.chunk, FallbackVoices[v], o,
               IF v < Len(FallbackVoices)
               THEN [Top EXCEPT !.voiceIdx = v]
               ELSE [Top EXCEPT !.voiceIdx = v, !.stage = "substitute"])
    /\ UNCHANGED errorLog
    /\ UNCHANGED frameFixed /\ UNCHANGED nonPipeVars

\* the error message chunk in en-US (Google)
TrySubstitute ==
    /\ InFrame("substitute")
    /\ ErrorCb("substituting", Top.chunk)
    /\ \E o \in Outcomes :
         Issue(SubstituteText, SubstituteVoice(request.Voice), o,
               [Top EXCEPT !.stage = "fail"])
    /\ UNCHANGED frameFixed /\ UNCHANGED nonPipeVars

\* return data, nil
ReturnAudio ==
    /\ InFrame("return")
    /\ ReturnToCaller(Top.audio, Nil)
    /\ UNCHANGED errorLog /\ UNCHANGED noCall
    /\ UNCHANGED frameFixed /\ UNCHANGED nonPipeVars

\* log and show user-friendly error; return nil, err
FinalFailure ==
    /\ InFrame("fail")
    /\ ErrorCb("final", Top.chunk)
    /\ ReturnToCaller(<<>>, Top.err)
    /\ UNCHANGED noCall
    /\ UNCHANGED frameFixed /\ UNCHANGED nonPipeVars

\* the deadline of the context passes, or the caller cancels it
ContextDone ==
    /\ pc \in {"start", "loop"}
    /\ ctxErr = Nil
    /\ ctxErr' \in ContextErrors
    /\ UNCHANGED <<pc, job, request, chunks, totalChunks, idx, stack, audioData,
                   completed, progressLog, errorLog, failures, unitReturns, result>>
    /\ UNCHANGED nonPipeVars

\* processChunkRecursivelyWithDepth called on its own: the chunk and the
\* recursion level it is entered with are drawn around the ceiling
EntryLevels == {MaxRecursionLevel - 1, MaxRecursionLevel, MaxRecursionLevel + 1}

EntryChunks == {<<"a">>, <<"a", " ", "b">>, <<"a", "*", ">", "~", Backtick, "]">>}

InitDepth ==
    /\ pc = "loop"
    /\ job \in Jobs
    /\ \E t \in EntryChunks, level \in EntryLevels :
         /\ request = RequestOf(job, t)
         /\ chunks = <<t>>
         /\ stack = <<NewFrame(t, level)>>
    /\ totalChunks = 1 /\ idx = 1
    /\ audioData = <<>> /\ completed = 0
    /\ progressLog = <<>> /\ errorLog = <<>> /\ failures = 0 /\ unitReturns = <<>>
    /\ ctxErr = Nil /\ result = Nil

----------------------------------------------------------------------------
(* The concurrency controller: Client.GenerateSpeechChunks (ticker of one   *)
(* second) and GoogleProvider.generateSpeechChunks (ticker of 200 ms).     *)

Controllers == {"GenerateSpeechChunks", "generateSpeechChunks"}

ConcIdle ==
    /\ ctl = "none" /\ parts = <<>> /\ creq = Nil /\ subReqs = <<>> /\ cpc = "off" /\ spawned = 0 /\ worker = <<>>
    /\ ticker = 0 /\ stopped = FALSE /\ results = <<>> /\ errs = <<>> /\ wg = 0
    /\ finished = <<>> /\ combined = Nil

\* parts := splitText(...); results, errs := make(...); ticker := time.NewTicker(...)
InitConc ==
    /\ ctl \in Controllers
    /\ \E n \in 0..MaxParts : parts = [i \in 1..n |-> <<"part", i>>]
    /\ creq = RequestOf([isGoogle |-> ctl = "generateSpeechChunks"], Flatten(parts))
    /\ subReqs = [i \in 1..Len(parts) |-> Nil]
    /\ cpc = "dispatch" /\ spawned = 0
    /\ worker = [i \in 1..Len(parts) |-> "none"]
    /\ ticker = 0 /\ stopped = FALSE
    /\ results = [i \in 1..Len(parts) |-> Nil]
    /\ errs = [i \in 1..Len(parts) |-> Nil]
    /\ wg = 0 /\ finished = <<>> /\ combined = Nil

\* for i, chunk := range parts { wg.Add(1); go func(i, textChunk) {...}(i, chunk) }
Spawn ==
    /\ cpc = "dispatch" /\ spawned < Len(parts)
    /\ spawned' = spawned + 1
    /\ wg' = wg + 1
    /\ worker' = [worker EXCEPT ![spawned + 1] = "tick"]
    /\ UNCHANGED <<ctl, parts, creq, subReqs, cpc, ticker, stopped, results, errs, finished, combined>>
    /\ UNCHANGED nonConcVars

\* a ticker that is stopped as soon as the range loop has started the last
\* goroutine (not the code's, which defers ticker.Stop() to the return)
Tick_StoppedAfterDispatch ==
    /\ cpc = "dispatch" /\ ~stopped /\ ticker = 0
    /\ spawned < Len(parts)
    /\ ticker' = 1
    /\ UNCHANGED <<ctl, parts, creq, subReqs, cpc, spawned, worker, stopped, results, errs, wg,
                   finished, combined>>
    /\ UNCHANGED nonConcVars

\* the runtime sends a tick; it is dropped when the channel is full
Tick ==
    /\ cpc = "dispatch" /\ ~stopped /\ ticker = 0
    /\ ticker' = 1
    /\ UNCHANGED <<ctl, parts, creq, subReqs, cpc, spawned, worker, stopped, results, errs, wg,
                   finished, combined>>
    /\ UNCHANGED nonConcVars

\* a worker that passes the limiter on a tick it leaves in the channel
\* (not the code's)
WorkerTakeTick_LeavesTick(i) ==
    /\ worker[i] = "tick" /\ ticker = 1
    /\ worker' = [worker EXCEPT ![i] = "call"]
    /\ UNCHANGED <<ctl, parts, creq, subReqs, cpc, spawned, ticker, stopped, results, errs, wg,
                   finished, combined>>
    /\ UNCHANGED nonConcVars

\* <-ticker.C
WorkerTakeTick(i) ==
    /\ worker[i] = "tick" /\ ticker = 1
    /\ ticker' = 0
    /\ worker' = [worker EXCEPT ![i] = "call"]
    /\ UNCHANGED <<ctl, parts, creq, subReqs, cpc, spawned, stopped, results, errs, wg, finished, combined>>
    /\ UNCHANGED nonConcVars

\* the audio of the request for parts[i]
AudioOfPart(i) == AudioOf([unit |-> i, level |-> 0, n |-> 1, Text |-> parts[i]])

\* a worker that writes the slot of the last goroutine started, as a closure
\* over the loop variable would (not the code's)
WorkerCall_SharedIndex(i) ==
    /\ worker[i] = "call"
    /\ \E o \in {"ok"} \cup ProviderErrors :
         /\ results' = [results EXCEPT ![spawned] = IF o = "ok" THEN AudioOfPart(i) ELSE <<>>]
         /\ errs' = [errs EXCEPT ![spawned] = IF o = "ok" THEN Nil ELSE o]
    /\ subReqs' = [subReqs EXCEPT ![i] = [creq EXCEPT !.Text = parts[i]]]
    /\ worker' = [worker EXCEPT ![i] = "done"]
    /\ wg' = wg - 1
    /\ finished' = Append(finished, i)
    /\ UNCHANGED <<ctl, parts, creq, cpc, spawned, ticker, stopped, combined>>
    /\ UNCHANGED nonConcVars

\* subReq := req; subReq.Input = textChunk (chunkReq := *req; chunkReq.Text =
\* textChunk); data, err := GenerateSpeech(subReq); results[i] = data;
\* errs[i] = err; wg.Done()
WorkerCall(i) ==
    /\ worker[i] = "call"
    /\ \E o \in {"ok"} \cup ProviderErrors :
         /\ results' = [results EXCEPT ![i] = IF o = "ok" THEN AudioOfPart(i) ELSE <<>>]
         /\ errs' = [errs EXCEPT ![i] = IF o = "ok" THEN Nil ELSE o]
    /\ subReqs' = [subReqs EXCEPT ![i] = [creq EXCEPT !.Text = parts[i]]]
    /\ worker' = [worker EXCEPT ![i] = "done"]
    /\ wg' = wg - 1
    /\ finished' = Append(finished, i)
    /\ UNCHANGED <<ctl, parts, creq, cpc, spawned, ticker, stopped, combined>>
    /\ UNCHANGED nonConcVars

\* for _, err := range errs { if err != nil { return nil, err } }
FirstError(es) ==
    IF \E i \in 1..Len(es) : es[i] # Nil
    THEN es[CHOOSE i \in 1..Len(es) :
                es[i] # Nil /\ \A j \in 1..(i - 1) : es[j] = Nil]
    ELSE Nil

\* the completion-order aggregation (not the code's)
CombinedInCompletionOrder(rs) ==
    Flatten([k \in 1..Len(finished) |-> rs[finished[k]]])

\* for _, blob := range results { combined = append(combined, blob...) }
Combined(rs) == Flatten(rs)

\* a controller that aggregates after the range loop without wg.Wait()
\* (not the code's); a slot not yet written holds nil
WaitReturn_NoWait ==
    LET written(slots, empty) ==
            [i \in 1..Len(parts) |-> IF worker[i] = "done" THEN slots[i] ELSE empty]
    IN
    /\ cpc = "dispatch" /\ spawned = Len(parts)
    /\ combined' = IF FirstError(written(errs, Nil)) # Nil
                   THEN [data |-> Nil, err |-> FirstError(written(errs, Nil))]
                   ELSE [data |-> Combined(written(results, <<>>)), err |-> Nil]
    /\ stopped' = TRUE
    /\ cpc' = "done"
    /\ UNCHANGED <<ctl, parts, creq, subReqs, spawned, worker, ticker, results, errs, wg, finished>>
    /\ UNCHANGED nonConcVars

\* wg.Wait() returns; the error check, the concatenation, and the deferred ticker.Stop()
WaitReturn ==
    /\ cpc = "dispatch" /\ spawned = Len(parts) /\ wg = 0
    /\ combined' = IF FirstError(errs) # Nil
                   THEN [data |-> Nil, err |-> FirstError(errs)]
                   ELSE [data |-> Combined(results), err |-> Nil]
    /\ stopped' = TRUE
    /\ cpc' = "done"
    /\ UNCHANGED <<ctl, parts, creq, subReqs, spawned, worker, ticker, results, errs, wg, finished>>
    /\ UNCHANGED nonConcVars

----------------------------------------------------------------------------
(* manager.go: the Manager, with the providers' ValidateConfig, and the    *)
(* checks handleSubmit makes before it starts the job.  A call is recorded *)
(* in mcall together with what the selected provider's state was.          *)

ProviderNames == {"", "openai", "google", "azure"}

Configs ==
    [OpenAIAPIKey : {"", "sk"}, GoogleProjectID : {"", "proj"},
     DefaultProvider : ProviderNames]

NoCall ==
    [op |-> "none", providerName |-> "", exists |-> FALSE, validateErr |-> Nil,
     started |-> FALSE, requests |-> 0, err |-> Nil]

MgrIdle ==
    /\ config = Nil /\ providers = <<>> /\ defaultProvider = ""
    /\ accessToken = FALSE /\ mpc = "off" /\ mcall = NoCall

\* the providers map initializeProviders builds
RegisteredProviders(c) ==
    [n \in {m \in {"openai", "google"} :
                \/ m = "openai" /\ c.OpenAIAPIKey # ""
                \/ m = "google" /\ c.GoogleProjectID # ""}
        |-> IF n = "openai" THEN c.OpenAIAPIKey ELSE c.GoogleProjectID]

\* the values initializeProviders can leave in m.defaultProvider: the
\* configured one, else the first name the map's iteration yields, else the
\* one it held
DefaultProviders(c, held) ==
    IF c.DefaultProvider # "" THEN {c.DefaultProvider}
    ELSE IF DOMAIN RegisteredProviders(c) # {} THEN DOMAIN RegisteredProviders(c)
    ELSE {held}

\* NewManager(config)
InitMgr ==
    /\ config \in Configs
    /\ providers = RegisteredProviders(config)
    /\ defaultProvider \in DefaultProviders(config, "")
    /\ accessToken = FALSE /\ mpc = "idle" /\ mcall = NoCall

\* Manager.UpdateConfig(config)
UpdateConfig(c) ==
    /\ mpc = "idle"
    /\ config' = c
    /\ providers' = RegisteredProviders(c)
    /\ defaultProvider' \in DefaultProviders(c, defaultProvider)
    /\ UNCHANGED <<accessToken, mpc, mcall>>
    /\ UNCHANGED nonMgrVars

\* Manager.SetDefaultProvider(name), when the provider exists
SetDefaultProvider(name) ==
    /\ mpc = "idle"
    /\ name \in DOMAIN providers
    /\ defaultProvider' = name
    /\ UNCHANGED <<config, providers, accessToken, mpc, mcall>>
    /\ UNCHANGED nonMgrVars

\* time passes g.tokenExpiry
TokenExpires ==
    /\ mpc = "idle" /\ accessToken
    /\ accessToken' = FALSE
    /\ UNCHANGED <<config, providers, defaultProvider, mpc, mcall>>
    /\ UNCHANGED nonMgrVars

\* GoogleProvider.getAccessToken: the cached token, else what gcloud prints
getAccessToken(cached, gcloudOk) == cached \/ gcloudOk

\* OpenAIProvider.ValidateConfig / GoogleProvider.ValidateConfig
ValidateConfig(name, credential, cached, gcloudOk) ==
    IF name = "openai"
    THEN IF credential = "" THEN "OpenAI API key is required" ELSE Nil
    ELSE IF credential = "" THEN "Google Cloud project ID is required"
    ELSE IF ~getAccessToken(cached, gcloudOk)
         THEN "failed to authenticate with Google Cloud"
    ELSE Nil

\* Manager.GetProvider / Manager.GetDefaultProvider: the name looked up
ResolvedName(providerName) ==
    IF providerName # "" THEN providerName ELSE defaultProvider

ProviderExists(name) == name # "" /\ name \in DOMAIN providers

ConfigErrors ==
    {"provider not found", "no default provider configured",
     "provider configuration error", "No TTS provider selected"}

\* provider.GenerateSpeech(ctx, req): the requests it issues and what it
\* returns.  The Google provider validates again and fetches the token again
\* before its request.
ProviderGenerateSpeech(name, cached, gcloudOk, outcome) ==
    IF name = "google" /\ ~getAccessToken(cached, gcloudOk)
    THEN [requests |-> 0, err |-> "failed to authenticate with Google Cloud",
          cached |-> FALSE]
    ELSE [requests |-> 1, err |-> IF outcome = "ok" THEN Nil ELSE outcome,
          cached |-> IF name = "google" THEN TRUE ELSE cached]

\* a manager that logs the result of ValidateConfig and goes on to the
\* provider all the same (not the code's)
ManagerGenerateSpeech_IgnoresValidation(providerName, gcloud1, gcloud2, outcome) ==
    LET name   == ResolvedName(providerName)
        exists == ProviderExists(name)
        verr   == IF exists
                  THEN ValidateConfig(name, providers[name], accessToken, gcloud1)
                  ELSE Nil
        cached == IF exists /\ name = "google"
                  THEN getAccessToken(accessToken, gcloud1) ELSE accessToken
        gen    == ProviderGenerateSpeech(name, cached, gcloud2, outcome)
        call   == [op |-> "GenerateSpeech", providerName |-> providerName,
                   exists |-> exists, validateErr |-> verr]
    IN
    /\ mpc = "idle"
    /\ IF ~exists
       THEN /\ mcall' = call @@ [started |-> FALSE, requests |-> 0,
                                 err |-> IF name = ""
                                         THEN "no default provider configured"
                                         ELSE "provider not found"]
            /\ UNCHANGED accessToken
       ELSE /\ mcall' = call @@ [started |-> TRUE, requests |-> gen.requests,
                                 err |-> gen.err]
            /\ accessToken' = gen.cached
    /\ UNCHANGED <<config, providers, defaultProvider, mpc>>
    /\ UNCHANGED nonMgrVars

\* Manager.GenerateSpeech(ctx, req, providerName)
ManagerGenerateSpeech(providerName, gcloud1, gcloud2, outcome) ==
    LET name   == ResolvedName(providerName)
        exists == ProviderExists(name)
        verr   == IF exists
                  THEN ValidateConfig(name, providers[name], accessToken, gcloud1)
                  ELSE Nil
        cached == IF exists /\ name = "google"
                  THEN getAccessToken(accessToken, gcloud1) ELSE accessToken
        gen    == ProviderGenerateSpeech(name, cached, gcloud2, outcome)
        call   == [op |-> "GenerateSpeech", providerName |-> providerName,
                   exists |-> exists, validateErr |-> verr]
    IN
    /\ mpc = "idle"
    /\ IF ~exists
       THEN /\ mcall' = call @@ [started |-> FALSE, requests |-> 0,
                                 err |-> IF name = ""
                                         THEN "no default provider configured"
                                         ELSE "provider not found"]
            /\ UNCHANGED accessToken
       ELSE IF verr # Nil
       THEN /\ mcall' = call @@ [started |-> FALSE, requests |-> 0,
                                 err |-> "provider configuration error"]
            /\ accessToken' = cached
       ELSE /\ mcall' = call @@ [started |-> TRUE, requests |-> gen.requests,
                                 err |-> gen.err]
            /\ accessToken' = gen.cached
    /\ UNCHANGED <<config, providers, defaultProvider, mpc>>
    /\ UNCHANGED nonMgrVars

\* handleSubmit(ui, ttsManager, providerName), up to `go func() {...}()`
handleSubmit(providerName, inputText, gcloudOk) ==
    LET exists == ProviderExists(providerName)
        verr   == IF exists
                  THEN ValidateConfig(providerName, providers[providerName],
                                      accessToken, gcloudOk)
                  ELSE Nil
        cached == IF exists /\ providerName = "google"
                  THEN getAccessToken(accessToken, gcloudOk) ELSE accessToken
        call   == [op |-> "handleSubmit", providerName |-> providerName,
                   exists |-> exists, validateErr |-> verr, requests |-> 0]
    IN
    /\ mpc = "idle"
    /\ IF providerName = ""
       THEN /\ mcall' = call @@ [started |-> FALSE, err |-> "No TTS provider selected"]
            /\ UNCHANGED <<accessToken, mpc>>
       ELSE IF ~exists
       THEN /\ mcall' = call @@ [started |-> FALSE, err |-> "provider not found"]
            /\ UNCHANGED <<accessToken, mpc>>
       ELSE IF verr # Nil
       THEN /\ mcall' = call @@ [started |-> FALSE, err |-> "provider configuration error"]
            /\ accessToken' = cached
            /\ UNCHANGED mpc
       ELSE IF inputText = <<>>
       THEN /\ mcall' = call @@ [started |-> FALSE, err |-> "Please enter some text"]
            /\ accessToken' = cached
            /\ UNCHANGED mpc
       ELSE /\ mcall' = call @@ [started |-> TRUE, err |-> Nil]
            /\ accessToken' = cached
            /\ mpc' = "goroutine"
    /\ UNCHANGED <<config, providers, defaultProvider>>
    /\ UNCHANGED nonMgrVars

\* the goroutine handleSubmit started: provider.CheckAuth, then the job,
\* whose first unit is sent to the provider
SubmitGoroutine(authOk, gcloudOk, outcome) ==
    LET gen == ProviderGenerateSpeech(mcall.providerName, accessToken, gcloudOk, outcome)
    IN
    /\ mpc = "goroutine"
    /\ IF ~authOk
       THEN /\ mcall' = [mcall EXCEPT !.err = "Authorization failed"]
            /\ UNCHANGED accessToken
       ELSE /\ mcall' = [mcall EXCEPT !.requests = gen.requests, !.err = gen.err]
            /\ accessToken' = gen.cached
    /\ mpc' = "idle"
    /\ UNCHANGED <<config, providers, defaultProvider>>
    /\ UNCHANGED nonMgrVars

----------------------------------------------------------------------------
(* Claims about the chunker *)

\* the cost of a unit under the measurement of the applied entry point
Cost(u) == IF fn = "SplitTextByteLimit" THEN ByteLen(u) ELSE TokenCount(u)

Applied == fn # "none" /\ ~panicked

\* C1: for every text and every budget B >= 1, every returned unit has
\* cost <= B (bytes for SplitTextByteLimit, tokens for SplitTextTokenLimit
\* and splitText).  Stated for the inputs on which it can be met at all:
\* those whose every rune, taken alone, costs no more than B.
C1_UnitsWithinBudget ==
    (Applied /\ budget >= 1 /\ \A i \in 1..Len(text) : Cost(<<text[i]>>) <= budget)
        => \A k \in 1..Len(units) : Cost(units[k]) <= budget

\* C2: for every text and every budget B >= 1, no returned unit is empty or
\* whitespace-only.
C2_NoBlankUnit ==
    (Applied /\ budget >= 1) => \A k \in 1..Len(units) : TrimSpace(units[k]) # <<>>

RECURSIVE Boundaries(_)
\* the offsets, in non-whitespace runes, at which the words of ws end
Boundaries(ws) ==
    IF ws = <<>> THEN {0}
    ELSE {0} \cup {Len(Head(ws)) + b : b \in Boundaries(Tail(ws))}

\* C3: round trip.  The units joined by one space hold the non-whitespace
\* runes of the input, in order, none dropped or duplicated, and every word
\* boundary of the input is a word boundary of the join.
C3_RoundTrip ==
    (Applied /\ budget >= 1) =>
        LET outWords == Fields(JoinSpace(units))
            inWords  == Fields(text)
        IN  /\ Flatten(outWords) = Flatten(inWords)
            /\ Boundaries(inWords) \subseteq Boundaries(outWords)

\* C4: chunking terminates for every non-negative budget: every iteration
\* of the rune-fallback loop advances by at least one rune.
C4_RuneLoopAdvances == [][RuneIterate => runeI' > runeI]_vars

\* the applied entry point, applied again to one unit with the same budget
Rechunk(u) ==
    IF fn = "SplitTextByteLimit" THEN Returned(SplitTextByteLimit(u, budget))
    ELSE IF fn = "SplitTextTokenLimit" THEN Returned(SplitTextTokenLimit(u, budget, encOk))
    ELSE splitText(u, budget, encOk)

\* C18: chunking is idempotent: for every unit u returned by Chunk(text, B),
\* Chunk(u, B) returns exactly the one-element sequence [u].  Stated for the
\* units that satisfy the budget and are not blank, so that a unit C1 or C2
\* already rejects is not counted against idempotence.
C18_Idempotent ==
    (Applied /\ budget >= 1) =>
        \A k \in 1..Len(units) :
            (Cost(units[k]) <= budget /\ TrimSpace(units[k]) # <<>>)
                => Rechunk(units[k]) = Returned(<<units[k]>>)

\* the trimmed text holds a major separator: a horizontal rule on a line of
\* its own, or a blank line
HasMajorSeparator(t) ==
    \/ FindAllStringIndex("hr", TrimSpace(t)) # <<>>
    \/ FindAllStringIndex("multiNewline", TrimSpace(t)) # <<>>

IsParagraph(p) ==
    /\ p # <<>> /\ TrimSpace(p) = p
    /\ \A i \in 1..Len(p) : p[i] # "\n"

TwoBlankLines == <<"\n", "\n", "\n">>

\* C20: for a text made of two non-empty paragraphs separated by two blank
\* lines, each paragraph under budget, Chunk returns exactly two units, the
\* first paragraph then the second.
C20_TwoParagraphsTwoUnits ==
    \A i \in 1..(Len(text) - 4) :
        LET p1 == SubSeq(text, 1, i)
            p2 == SubSeq(text, i + 4, Len(text))
        IN  (/\ fn # "none" /\ budget >= 1
             /\ SubSeq(text, i + 1, i + 3) = TwoBlankLines
             /\ IsParagraph(p1) /\ IsParagraph(p2)
             /\ Cost(p1) <= budget /\ Cost(p2) <= budget)
            => ~panicked /\ units = <<p1, p2>>

\* C23: when a single whitespace-free word alone exceeds the budget B, the
\* rune-level fallback splits it into slices each of cost <= B, whose
\* in-order concatenation is the word.  Token mode: splitByRune as splitByWord
\* calls it, with maxTokens*3 runes to the slice.
C23_RuneSlicesWithinBudget ==
    (runePc = "done" /\ runeMax >= 3) =>
        /\ Flatten(runeChunks) = runeText
        /\ \A k \in 1..Len(runeChunks) : TokenCount(runeChunks[k]) <= runeMax \div 3

----------------------------------------------------------------------------
(* Claims about the pipeline and the controller *)

\* the blobs of a buffer come in non-decreasing unit order
InUnitOrder(buf) ==
    \A i, j \in 1..Len(buf) : i < j => buf[i].unit <= buf[j].unit

\* C5: the final audio buffer is the concatenation of the per-unit audio in
\* original unit order, whatever the completion order of the controller's
\* workers, and in the sequential pipeline: a unit with a lower index never
\* comes after a unit with a higher index.
C5_OutputInUnitOrder ==
    /\ InUnitOrder(audioData)
    /\ pc = "done" => InUnitOrder(result.audio)
    /\ (cpc = "done" /\ combined.err = Nil) =>
          combined.data = Flatten([i \in 1..Len(parts) |-> AudioOfPart(i)])

\* the workers of a three-unit controller job finish in reverse order and
\* the job returns its audio
C5_Witness ==
    /\ cpc = "done" /\ combined.err = Nil
    /\ finished = <<3, 2, 1>>
    /\ Len(combined.data) = 3

RECURSIVE ConcatSucceeded(_, _)
\* the data of the returns without error from position k on, in order
ConcatSucceeded(rets, k) ==
    IF k > Len(rets) THEN <<>>
    ELSE (IF rets[k].err = Nil THEN rets[k].data ELSE <<>>) \o ConcatSucceeded(rets, k + 1)

\* C6: whatever units fail, ProcessTextToSpeech processes every unit and
\* returns a nil error with the in-order concatenation of the audio of
\* exactly the units that succeeded.
C6_PartialSuccess ==
    pc = "done" =>
        /\ result.err = Nil
        /\ Len(unitReturns) = Len(chunks)
        /\ result.audio = ConcatSucceeded(unitReturns, 1)

\* the first of two units fails on the provider's errors, the second succeeds
C6_Witness ==
    /\ pc = "done" /\ ctxErr = Nil
    /\ Len(unitReturns) = 2
    /\ unitReturns[1].err \in ProviderErrors
    /\ unitReturns[2].err = Nil
    /\ result.audio = unitReturns[2].data /\ result.audio # <<>>

\* the positions of errorLog that hold a warning about unit u; the notes
\* "rate limit hit, waiting before retry" of the retry loop are not counted
WarningsOf(u) ==
    {k \in 1..Len(errorLog) : errorLog[k].unit = u /\ errorLog[k].kind # "rate"}

\* unit u is a single word that has been given up after its last strategy
GivenUpSingleWord(u) ==
    /\ u <= Len(unitReturns)
    /\ Len(Fields(chunks[u])) = 1
    /\ unitReturns[u].err # Nil
    /\ \E k \in WarningsOf(u) : errorLog[k].kind = "final"

\* C7: a single-word unit that fails on every degradation strategy gets
\* exactly one warning through the error callback, for every provider kind,
\* and the warning carries the preview of the unit's text.
C7_OneWarningPerFailedUnit ==
    \A u \in 1..Len(chunks) :
        GivenUpSingleWord(u) =>
            /\ Cardinality(WarningsOf(u)) = 1
            /\ \A k \in WarningsOf(u) : errorLog[k].preview = Preview(chunks[u])

\* the requests of a frame that its retry loop has sent
AttemptCalls(f) == SelectSeq(f.calls, LAMBDA c : c.stage = "attempt")

AllFirstTry ==
    /\ pc = "done" /\ failures = 0 /\ Len(chunks) >= 1
    /\ \A u \in 1..Len(unitReturns) : unitReturns[u].err = Nil

\* C9: when every unit of an N-unit job succeeds on its first attempt, the
\* progress callback is called exactly N times, with 1..N of N.
C9_ProgressCountsUnits ==
    AllFirstTry => progressLog = [k \in 1..Len(chunks) |-> <<k, Len(chunks)>>]

\* a two-unit job whose units both succeed on the first attempt
C9_Witness ==
    AllFirstTry /\ Len(chunks) = 2 /\ Len(progressLog) = 2

\* C10: the fractions completed/total reported through the progress
\* callback never decrease over a job, whatever the provider does.
C10_ProgressNeverDecreases ==
    \A i, j \in 1..Len(progressLog) :
        i < j => progressLog[i][1] * progressLog[j][2] <= progressLog[j][1] * progressLog[i][2]

\* progress reported three times in a job in which a provider call failed
C10_Witness ==
    /\ Len(progressLog) >= 3
    /\ failures >= 1

\* C11: every progress report has 0 <= completed <= total, so the fraction
\* handed to the progress bar lies in [0,1], whatever the provider does and
\* however units are sub-chunked.
C11_ProgressWithinTotal ==
    \A k \in 1..Len(progressLog) :
        0 <= progressLog[k][1] /\ progressLog[k][1] <= progressLog[k][2]

\* C12: when the context is cancelled or its deadline passes while the job
\* runs, so that a unit is given up with the context's error,
\* ProcessTextToSpeech returns a non-nil cancellation error.
C12_CancellationIsJobError ==
    (pc = "done" /\ \E u \in 1..Len(unitReturns) : unitReturns[u].err \in ContextErrors)
        => result.err # Nil

\* C13: a unit waiting out its retry backoff stops waiting once the context
\* is done: the step it takes from there returns from the invocation (with
\* the cancellation error), it does not go on to another attempt.
C13_BackoffObservesCancellation ==
    [][(ctxErr # Nil /\ InFrame("backoff")) => Len(stack') < Len(stack)]_vars

\* C14: in the controller each tick releases at most one worker, and no
\* worker issues its request before it has consumed a tick: a worker leaves
\* its wait only by taking the one buffered tick out of the channel, alone,
\* and a worker finishes its request only after that.
C14_OneRequestPerTick ==
    [][\A i \in 1..Len(parts) :
          /\ (worker[i] = "tick" /\ worker'[i] # "tick") =>
                /\ ticker = 1 /\ ticker' = 0
                /\ worker'[i] = "call"
                /\ \A j \in 1..Len(parts) : j # i => worker'[j] = worker[j]
          /\ (worker[i] # "done" /\ worker'[i] = "done") => worker[i] = "call"]_vars

\* a tick has released one worker while another still waits for the next
C14_Witness ==
    /\ cpc = "dispatch" /\ ticker = 0
    /\ \E i, j \in 1..Len(parts) : worker[i] = "call" /\ worker[j] = "tick"

\* C15: the controller does not return, nor read the slots, before every
\* dispatched worker has finished: when it has returned, each index holds
\* that worker's audio or that worker's error.
C15_ReturnsAfterAllWorkers ==
    cpc = "done" =>
        \A i \in 1..Len(parts) :
            /\ worker[i] = "done"
            /\ \/ errs[i] = Nil /\ results[i] = AudioOfPart(i)
               \/ errs[i] \in ProviderErrors

\* a three-unit controller job has returned, one worker having failed
C15_Witness ==
    /\ cpc = "done" /\ Len(parts) = 3
    /\ \E i, j \in 1..3 : errs[i] = Nil /\ errs[j] \in ProviderErrors

\* the audio of the workers that succeeded, in index order
SucceededAudio ==
    Flatten([i \in 1..Len(parts) |-> IF errs[i] = Nil THEN results[i] ELSE <<>>])

\* C16: when some units of a controller job fail and others succeed, the
\* controller returns the in-order concatenation of the audio of the units
\* that succeeded.
C16_PartialResultsAggregated ==
    (/\ cpc = "done"
     /\ \E i, j \in 1..Len(parts) : errs[i] = Nil /\ errs[j] # Nil)
    => /\ combined.data # Nil
       /\ combined.data = SucceededAudio

\* C17: if the selected provider does not exist or its ValidateConfig
\* fails, the job is not started: Manager.GenerateSpeech and handleSubmit
\* report a configuration error and no synthesis request reaches the
\* provider.
C17_ConfigErrorStartsNoJob ==
    (mcall.op # "none" /\ (~mcall.exists \/ mcall.validateErr # Nil))
        => /\ ~mcall.started
           /\ mcall.requests = 0
           /\ mcall.err \in ConfigErrors

\* Manager.GenerateSpeech was called for a registered provider whose
\* ValidateConfig failed
C17_Witness ==
    /\ mcall.op = "GenerateSpeech"
    /\ mcall.exists /\ mcall.validateErr # Nil

\* C21: for empty or whitespace-only input the chunker returns zero units,
\* and ProcessTextToSpeech completes with an empty buffer and a nil error,
\* having made no provider call and invoked no callback.
C21_BlankInputNoWork ==
    (pc \in {"loop", "done"} /\ TrimSpace(request.Text) = <<>>) =>
        /\ chunks = <<>> /\ stack = <<>>
        /\ completed = 0 /\ failures = 0
        /\ progressLog = <<>> /\ errorLog = <<>>
        /\ pc = "done" => result = [audio |-> <<>>, err |-> Nil]

\* a job over a whitespace-only text has completed
C21_Witness ==
    /\ pc = "done" /\ request.Text = <<" ", "\n">>

UnitCost(u) ==
    IF job.isGoogle THEN ByteLen(chunks[u]) ELSE TokenCount(chunks[u])

\* what the report for unit u added to the completed count, when every unit
\* was reported once, in order
Added(u) == progressLog[u][1] - (IF u = 1 THEN 0 ELSE progressLog[u - 1][1])

\* C24: the progress added when a unit completes is proportional to that
\* unit's measured cost: of two units in one job the fraction advances in
\* the ratio of their costs, not by the same amount for every unit.
C24_ProgressProportionalToCost ==
    (AllFirstTry /\ Len(progressLog) = Len(chunks)) =>
        \A u, v \in 1..Len(chunks) :
            Added(u) * UnitCost(v) = Added(v) * UnitCost(u)

\* the place of a call's stage in the order of one invocation
StageRank(stage) ==
    CASE stage = "attempt" -> 0
      [] stage = "sanitize" -> 1
      [] stage = "strip" -> 2
      [] stage = "voices" -> 3
      [] stage = "substitute" -> 4

\* the calls of frame f at the given stage, as positions of f.calls
CallsAt(f, stage) == {i \in 1..Len(f.calls) : f.calls[i].stage = stage}

\* the calls of frame f follow the order of the degradation chain
ChainInOrder(f) ==
    /\ \A i, j \in 1..Len(f.calls) :
          i < j => StageRank(f.calls[i].stage) <= StageRank(f.calls[j].stage)
    /\ Cardinality(CallsAt(f, "sanitize")) <= 1
    /\ Cardinality(CallsAt(f, "strip")) <= 1
    /\ Cardinality(CallsAt(f, "substitute")) <= 1
    /\ \A i \in CallsAt(f, "sanitize") :
          /\ f.calls[i].Text = sanitizeWordForTTS(f.chunk)
          /\ f.calls[i].Voice = request.Voice
    /\ \A i \in CallsAt(f, "strip") :
          /\ f.calls[i].Text = stripMarkdown(f.chunk)
          /\ f.calls[i].Voice = request.Voice
    /\ \A i \in CallsAt(f, "voices") :
          LET nth == Cardinality({j \in CallsAt(f, "voices") : j <= i}) IN
          /\ f.calls[i].Text = f.chunk
          /\ nth <= Len(FallbackVoices)
          /\ f.calls[i].Voice = FallbackVoices[nth]
    /\ \A i \in CallsAt(f, "substitute") :
          /\ f.calls[i].Text = SubstituteText
          /\ f.calls[i].Voice = SubstituteVoice(request.Voice)
          /\ Cardinality(CallsAt(f, "voices")) = Len(FallbackVoices)

\* C25: for a minimum unit whose normal attempts are exhausted, the calls of
\* the degradation chain are issued in the fixed order sanitized text
\* (original voice), markup-stripped text (original voice), original text
\* with each fallback voice in list order, placeholder phrase; each of the
\* sanitize and strip stages issues at most one call; and the chain stops at
\* the first successful call.
C25_ChainOrder ==
    /\ [](\A k \in 1..Len(stack) : ChainInOrder(stack[k]))
    /\ [][InFrame("return") =>
            /\ completed' = completed /\ failures' = failures
            /\ stack' # stack => Len(stack') < Len(stack)]_vars

\* a minimum unit whose attempt, sanitized request and markup-stripped
\* request failed has been synthesized with the second fallback voice
C25_Witness ==
    /\ InFrame("return")
    /\ CallsAt(Top, "sanitize") # {} /\ CallsAt(Top, "strip") # {}
    /\ Cardinality(CallsAt(Top, "voices")) = 2

\* the verbatim request of frame f (its chunk, the original voice) has failed
\* with an error the retry loop does not retry
RejectedVerbatim(f) ==
    /\ ctxErr = Nil
    /\ \E i \in 1..Len(f.calls) : f.calls[i].stage # "attempt"
    /\ Len(AttemptCalls(f)) > f.retryableFails

\* C26: once the request of a unit has failed with a non-retryable error,
\* no later provider call for that unit carries the identical text and the
\* identical voice: the retry loop stops, sub-chunking does not recurse into
\* the same text, and no fallback voice repeats the original request.
C26_NoVerbatimRetry ==
    \A k \in 1..Len(stack) :
        LET f == stack[k] IN
        /\ Len(AttemptCalls(f)) <= f.retryableFails + 1
        /\ RejectedVerbatim(f) =>
              \A i \in 1..Len(f.calls) :
                  f.calls[i].stage # "attempt" =>
                      ~(f.calls[i].Text = f.chunk /\ f.calls[i].Voice = request.Voice)
        /\ k > 1 => f.chunk # stack[k - 1].chunk

\* sub-chunking frame f's chunk gives back the chunk itself: one sub-unit of
\* the same byte size
Indivisible(f) ==
    /\ Len(Fields(f.chunk)) > 1 /\ ByteLen(f.chunk) > job.cfg.MinChunkBytes
    /\ Len(SubChunksOf(f.chunk)) = 1
    /\ ByteLen(SubChunksOf(f.chunk)[1]) = ByteLen(f.chunk)

\* C27: a failed multi-word unit whose sub-chunking returns exactly one
\* sub-unit of identical byte size is not recursed into, and by the time it
\* is declared failed every minimum-unit strategy that applies to it
\* (sanitized request, markup-stripped request, fallback voices, placeholder)
\* has been attempted.
C27_IndivisibleUnitDegrades ==
    \A k \in 1..Len(stack) :
        LET f == stack[k] IN
        (pc = "loop" /\ Indivisible(f)) =>
            /\ f.subChunks = <<>> /\ k = Len(stack)
            /\ f.stage = "fail" =>
                  /\ (sanitizeWordForTTS(f.chunk) # f.chunk /\ sanitizeWordForTTS(f.chunk) # <<>>)
                        => CallsAt(f, "sanitize") # {}
                  /\ (stripMarkdown(f.chunk) # f.chunk /\ stripMarkdown(f.chunk) # <<>>)
                        => CallsAt(f, "strip") # {}
                  /\ job.isGoogle =>
                        /\ Cardinality(CallsAt(f, "voices")) = Len(FallbackVoices)
                        /\ CallsAt(f, "substitute") # {}

\* C28: a unit is declared failed only after a request for the placeholder
\* phrase has been sent for it, whatever the provider kind and whether the
\* unit is one word or several.
C28_PlaceholderBeforeFailure ==
    InFrame("fail") =>
        \E i \in CallsAt(Top, "substitute") : Top.calls[i].Text = SubstituteText

\* the callback messages of the current unit that name the chunk of frame f
MessagesFor(f) ==
    {e \in 1..Len(errorLog) :
        /\ errorLog[e].unit = idx /\ errorLog[e].kind # "rate"
        /\ errorLog[e].preview = Preview(f.chunk)}

\* C29: every transition of a unit into SANITIZE, STRIP_MARKUP or FAIL calls
\* the error callback: a frame that has sent a sanitized or a markup-stripped
\* request has a callback message for each of them, and the step that gives
\* a unit up appends a message that names it.
C29_TransitionsReported ==
    /\ [](\A k \in 1..Len(stack) :
            Cardinality(MessagesFor(stack[k])) >=
                Cardinality(CallsAt(stack[k], "sanitize") \cup CallsAt(stack[k], "strip")))
    /\ [][(InFrame("fail") /\ stack' # stack) =>
            errorLog' = Append(errorLog, [kind |-> "final", preview |-> Preview(Top.chunk),
                                          unit |-> idx])]_vars

\* C30: every unit that ProcessTextToSpeech skips, for whatever reason (all
\* strategies failed, depth ceiling, cancellation), has at least one warning
\* delivered through the error callback that carries the preview of its text.
C30_NoSilentDrop ==
    \A u \in 1..Len(unitReturns) :
        unitReturns[u].err # Nil =>
            \E k \in WarningsOf(u) : errorLog[k].preview = Preview(chunks[u])

\* the job has seen the context done: the last request of the frame on top
\* came back with the context's error, or a unit was returned with it
CancelSeen ==
    /\ pc = "loop"
    /\ \/ stack # <<>> /\ Top.err \in ContextErrors
       \/ \E u \in 1..Len(unitReturns) : unitReturns[u].err \in ContextErrors

\* C31: once the context is cancelled or past its deadline and the job has
\* seen it, no further provider request is issued: pending units issue none,
\* and the unit in flight issues no retry, no sub-unit request and no
\* degradation request after the cancelled call returns.
C31_NoRequestAfterCancel ==
    [][CancelSeen => (completed' = completed /\ failures' = failures)]_vars

\* the level (0: sentence end + newline, 1: sentence end) at which the
\* chunker finds delimiters in chunk c, or 2 when it finds none
SplitLevel(c) ==
    IF Len(FindAllStringIndex(LevelRegex(0), c)) > 0 THEN 0
    ELSE IF Len(FindAllStringIndex(LevelRegex(1), c)) > 0 THEN 1 ELSE 2

\* what the level below level hands back for segment seg, under the applied
\* entry point
NextLevelDown(seg, level) ==
    IF fn = "SplitTextByteLimit" THEN splitChunkRecursivelyBytes(seg, budget, level + 1)
    ELSE IF fn = "SplitTextTokenLimit" THEN splitChunkRecursively(seg, budget, level + 1)
    ELSE splitChunkRecursively_chunkgo(seg, budget, level + 1).chunks

\* the sequence part occurs in the sequence whole, in order and unbroken
OccursIn(part, whole) ==
    \E i \in 0..(Len(whole) - Len(part)) : SubSeq(whole, i + 1, i + Len(part)) = part

\* C32: at a splitting level of the chunker, a delimited segment whose own
\* cost exceeds the budget is not placed into a unit as is: the units
\* returned hold, for that segment, the output of the next level down.
C32_OversizeSegmentGoesDown ==
    (Applied /\ budget >= 1 /\ (fn = "SplitTextByteLimit" \/ encOk)) =>
        LET initialChunks == GetInitialChunks(TrimSpace(text)) IN
        \A k \in 1..Len(initialChunks) :
            LET c     == TrimSpace(initialChunks[k])
                level == SplitLevel(c)
                segs  == SegmentsOf(c, FindAllStringIndex(LevelRegex(level), c))
            IN  (Cost(c) > budget /\ level < 2) =>
                    \A j \in 1..Len(segs) :
                        Cost(TrimSpace(segs[j])) > budget =>
                            OccursIn(NextLevelDown(TrimSpace(segs[j]), level), units)

\* every rune of t is one byte, so that bytes, runes and tokens of the model
\* count alike: the same cost function for both chunkers
SameCost(t) == \A i \in 1..Len(t) : RuneBytes(t[i]) = 1

\* C33: the token-based and the byte-based chunker are the same algorithm
\* up to the cost function: on a text and budget for which both measure the
\* number of characters, SplitTextByteLimit and SplitTextTokenLimit return
\* the same sequence of units, the rune fallback included.
C33_SameAlgorithmBothCosts ==
    (Applied /\ budget >= 1 /\ SameCost(text)) =>
        /\ fn = "SplitTextByteLimit" => units = SplitTextTokenLimit(text, budget, TRUE)
        /\ (fn = "SplitTextTokenLimit" /\ encOk) => units = SplitTextByteLimit(text, budget)

\* the budget handed to the chunker by ProcessTextToSpeech
TopBudget == IF job.isGoogle THEN DefaultByteLimit ELSE job.maxTokens

\* the budget under which the chunk of frame k was produced
BudgetOf(k) == IF k = 1 THEN TopBudget ELSE SubBudget(stack[k - 1].chunk)

\* C34: each sub-chunking step halves the effective budget: the budget under
\* which a unit at recursion level d+1 was produced is at most half the
\* budget under which its parent at level d was produced, for byte-based and
\* for token-based providers.
C34_BudgetHalves ==
    (stack # <<>> /\ stack[1].recursionLevel = 0) =>
        \A k \in 2..Len(stack) : 2 * BudgetOf(k) <= BudgetOf(k - 1)

\* C35: the sub-units of a sub-chunked unit are processed one after the
\* other, each on its own: the frame above a sub-chunking frame holds the
\* sub-unit whose turn it is; when a sub-unit returns, failed or not, the
\* loop moves to the next one and the parent's audio grows by exactly the
\* audio of a sub-unit that succeeded; and when the loop is over the parent
\* returns the audio gathered, as a success, whenever there is any.
C35_SubUnitsIndependent ==
    /\ [](\A k \in 2..Len(stack) :
             /\ stack[k - 1].stage = "subs"
             /\ stack[k - 1].subIdx \in 1..Len(stack[k - 1].subChunks)
             /\ stack[k].chunk = stack[k - 1].subChunks[stack[k - 1].subIdx]
             /\ stack[k].recursionLevel = stack[k - 1].recursionLevel + 1)
    /\ [][(Len(stack) >= 2 /\ Len(stack') = Len(stack) - 1) =>
            LET parent == stack[Len(stack) - 1] IN
            Top' = [parent EXCEPT
                       !.subIdx = @ + 1,
                       !.audio = IF Top.stage = "return" THEN @ \o Top.audio ELSE @]]_vars
    /\ [][(InFrame("subs") /\ Top.subIdx > Len(Top.subChunks) /\ Top.audio # <<>>
           /\ stack' # stack) =>
            Top' = [Top EXCEPT !.stage = "return", !.err = Nil]]_vars

\* a parent is about to return the audio of its last sub-unit alone: the
\* earlier sub-units failed and the loop went on
C35_Witness ==
    /\ InFrame("return") /\ Len(Top.subChunks) >= 2
    /\ Len(Top.audio) = 1
    /\ Top.audio[1].Text = Top.subChunks[Len(Top.subChunks)]
    /\ Top.audio[1].level = Top.recursionLevel + 1

\* C36: in the controller every index of the result array and of the error
\* array is written once, by the worker that owns the index: a step that
\* changes slot i is the step in which worker i stores what its request
\* returned, it changes no other slot, and a finished worker's slot never
\* changes again; the arrays are read (the error check and the
\* concatenation) only when every worker has finished.
C36_SlotsWrittenOnceByOwner ==
    /\ [][\A i \in 1..Len(results) :
            (results'[i] # results[i] \/ errs'[i] # errs[i]) =>
                /\ worker[i] = "call" /\ worker'[i] = "done"
                /\ \A j \in 1..Len(results) :
                      j # i => (results'[j] = results[j] /\ errs'[j] = errs[j])]_vars
    /\ [](\A i \in 1..Len(results) :
            /\ Cardinality({k \in 1..Len(finished) : finished[k] = i}) <= 1
            /\ (worker[i] = "done") = (\E k \in 1..Len(finished) : finished[k] = i)
            /\ worker[i] # "done" => (results[i] = Nil /\ errs[i] = Nil))
    /\ [][(cpc = "dispatch" /\ cpc' = "done") =>
            \A i \in 1..Len(results) : worker[i] = "done"]_vars

\* every worker has stored its result, the last one started being the first
\* to finish
C36_Witness ==
    /\ cpc = "done" /\ Len(parts) >= 2
    /\ finished[1] = Len(parts)
    /\ \A i \in 1..Len(parts) : results[i] = AudioOfPart(i)

\* request c differs from request r in Text or Voice at most
SameButTextVoice(c, r) ==
    /\ c.Speed = r.Speed /\ c.Format = r.Format /\ c.Model = r.Model
    /\ c.LanguageCode = r.LanguageCode /\ c.Instructions = r.Instructions

\* C37: the pipeline never modifies the caller's request: no step of
\* ProcessTextToSpeech or of a controller changes it, every request a frame
\* has sent differs from it in Text or Voice at most, and every request a
\* controller worker has sent differs from it in Text only.
C37_RequestNotModified ==
    /\ [][request' = request /\ creq' = creq]_vars
    /\ [](\A k \in 1..Len(stack) : \A c \in 1..Len(stack[k].calls) :
             SameButTextVoice(stack[k].calls[c], request))
    /\ [](\A i \in 1..Len(subReqs) :
             worker[i] = "done" =>
                 /\ subReqs[i].Text = parts[i]
                 /\ [subReqs[i] EXCEPT !.Text = creq.Text] = creq)

\* a unit of an OpenAI job has been sent as it is and then sanitized, with
\* the model name in both requests and the caller's text untouched
C37_Witness ==
    /\ InFrame("return") /\ ~job.isGoogle
    /\ \E c \in CallsAt(Top, "sanitize") :
          /\ Top.calls[c].Text # request.Text
          /\ Top.calls[c].Model = "gpt-4o-mini-tts"
    /\ Top.chunk = request.Text

\* C38: no provider call issued by ProcessTextToSpeech carries empty or
\* whitespace-only text: not for a unit, not for a sub-unit, not for a
\* sanitized or markup-stripped variant.
C38_NoBlankRequest ==
    \A k \in 1..Len(stack) : \A c \in 1..Len(stack[k].calls) :
        TrimSpace(stack[k].calls[c].Text) # <<>>

\* the steps the controller and its workers still have to take: four for a
\* goroutine not started, three for a worker before its tick, one for a
\* worker before its request returns, one tick that can still be sent, and
\* the return
StepsLeft ==
    4 * (Len(parts) - spawned)
    + 3 * Cardinality({i \in 1..Len(parts) : worker[i] = "tick"})
    + Cardinality({i \in 1..Len(parts) : worker[i] = "call"})
    + (IF ticker = 0 THEN 1 ELSE 0)
    + (IF cpc = "dispatch" THEN 1 ELSE 0)

\* C39: no worker starves at the rate limiter.  As long as the controller
\* has not returned, a worker that waits for a tick finds one in the channel
\* or the ticker can still send one, a worker with its tick can make its
\* request, and the controller can return once the workers are done; every
\* step of the controller uses up one of a bounded number of steps, so with
\* a ticker that keeps ticking and calls that return every worker finishes
\* and the controller returns; and the ticker is stopped only when all
\* workers are done.
C39_NoWorkerStarves ==
    /\ [](cpc = "dispatch" =>
            /\ \A i \in 1..Len(parts) :
                  /\ worker[i] = "none" => ENABLED Spawn
                  /\ worker[i] = "tick" =>
                        IF ticker = 1 THEN ENABLED WorkerTakeTick(i) ELSE ENABLED Tick
                  /\ worker[i] = "call" => ENABLED WorkerCall(i)
            /\ (\A i \in 1..Len(parts) : worker[i] = "done") => ENABLED WaitReturn)
    /\ [][StepsLeft' < StepsLeft]_vars
    /\ [](stopped => \A i \in 1..Len(parts) : worker[i] = "done")

\* the controller has returned and stopped the ticker after its workers took
\* their ticks in the order 2, 1
C39_Witness ==
    /\ cpc = "done" /\ stopped /\ wg = 0
    /\ Len(finished) = 2 /\ finished[1] = 2

\* C40: after any sequence of NewManager, UpdateConfig and SetDefaultProvider
\* calls the Manager's default provider is unset or the name of a provider
\* registered in the Manager, so GetDefaultProvider never fails on an
\* unregistered name
C40_DefaultProviderRegistered ==
    mpc # "off" =>
        (defaultProvider = "" \/ defaultProvider \in DOMAIN providers)

----------------------------------------------------------------------------
(* Specifications *)

InitChunkSpec == InitChunk /\ RuneIdle /\ PipeIdle /\ ConcIdle /\ MgrIdle

NextChunk ==
    \/ ApplySplitTextByteLimit
    \/ ApplySplitTextTokenLimit
    \/ ApplySplitText

SpecChunk == InitChunkSpec /\ [][NextChunk]_vars

InitRuneSpec == InitRune /\ ChunkIdle /\ PipeIdle /\ ConcIdle /\ MgrIdle

NextRune ==
    \/ RuneIterate
    \/ RuneReturn

SpecRune == InitRuneSpec /\ [][NextRune]_vars

InitPipeSpec == InitPipe /\ ChunkIdle /\ RuneIdle /\ ConcIdle /\ MgrIdle

NextPipe ==
    \/ ProcessTextToSpeech
    \/ EnterChunk
    \/ Entry
    \/ Attempt
    \/ BackoffElapsed
    \/ SubChunk
    \/ EnterSubChunk
    \/ SubChunksDone
    \/ TrySanitized
    \/ TryMarkdownStripped
    \/ TryFallbackVoice
    \/ TrySubstitute
    \/ ReturnAudio
    \/ FinalFailure
    \/ Finish
    \/ ContextDone

SpecPipe == InitPipeSpec /\ [][NextPipe]_vars

\* processChunkRecursivelyWithDepth entered at a drawn recursion level
InitDepthSpec == InitDepth /\ ChunkIdle /\ RuneIdle /\ ConcIdle /\ MgrIdle

NextDepth ==
    \/ Entry
    \/ Attempt
    \/ BackoffElapsed
    \/ SubChunk
    \/ EnterSubChunk
    \/ SubChunksDone
    \/ TrySanitized
    \/ TryMarkdownStripped
    \/ TryFallbackVoice
    \/ TrySubstitute
    \/ ReturnAudio
    \/ FinalFailure
    \/ Finish
    \/ ContextDone

SpecDepth == InitDepthSpec /\ [][NextDepth]_vars

InitConcSpec == InitConc /\ ChunkIdle /\ RuneIdle /\ PipeIdle /\ MgrIdle

WorkerTakesTick == \E i \in 1..Len(parts) : WorkerTakeTick(i)
WorkerCalls == \E i \in 1..Len(parts) : WorkerCall(i)

NextConc ==
    \/ Spawn
    \/ Tick
    \/ WorkerTakesTick
    \/ WorkerCalls
    \/ WaitReturn

SpecConc == InitConcSpec /\ [][NextConc]_vars

\* a synthesis job of either kind: the pipeline, or a controller
InitSynthSpec ==
    /\ ChunkIdle /\ RuneIdle /\ MgrIdle
    /\ \/ InitPipe /\ ConcIdle
       \/ InitConc /\ PipeIdle

NextSynth == NextPipe \/ NextConc

SpecSynth == InitSynthSpec /\ [][NextSynth]_vars

InitMgrSpec == InitMgr /\ ChunkIdle /\ RuneIdle /\ PipeIdle /\ ConcIdle

ConfigUpdated == \E c \in Configs : UpdateConfig(c)
DefaultProviderSet == \E name \in ProviderNames : SetDefaultProvider(name)
ManagerGeneratesSpeech ==
    \E providerName \in ProviderNames, gcloud1, gcloud2 \in BOOLEAN,
       outcome \in {"ok"} \cup ProviderErrors :
        ManagerGenerateSpeech(providerName, gcloud1, gcloud2, outcome)
SubmitHandled ==
    \E providerName \in ProviderNames, inputText \in {<<>>, <<"a">>},
       gcloudOk \in BOOLEAN :
        handleSubmit(providerName, inputText, gcloudOk)
SubmitGoroutineRuns ==
    \E authOk, gcloudOk \in BOOLEAN, outcome \in {"ok"} \cup ProviderErrors :
        SubmitGoroutine(authOk, gcloudOk, outcome)

NextMgr ==
    \/ ConfigUpdated
    \/ DefaultProviderSet
    \/ TokenExpires
    \/ ManagerGeneratesSpeech
    \/ SubmitHandled
    \/ SubmitGoroutineRuns

SpecMgr == InitMgrSpec /\ [][NextMgr]_vars

====
